---- MODULE Spec2Model ----
(***************************************************************************)
(* Verification model of subquery/indexer-proxy: the pay-as-you-go state   *)
(* channel (consumer proxy, example consumer, indexer proxy) and the P2P   *)
(* request/response behaviour.                                             *)
(*                                                                         *)
(* Cryptography is abstracted: a secret key is a name, keccak256 of an     *)
(* ABI encoding is the (injective) tuple of the encoded fields, and a      *)
(* signature remembers the key and the tuple it was made over together     *)
(* with its recovery byte v.                                               *)
(***************************************************************************)
EXTENDS Integers, Sequences, FiniteSets, TLC

\* ------------------------------------------------------------------ bounds
MaxTasks == 3          \* HTTP handler invocations of the consumer proxy
MaxSerialTasks == 6    \* the same, when the proxy is given one request at a time
MaxCliChannels == 2    \* channels the example consumer opens
MaxCliCount == 4       \* queries the example consumer sends per channel
MaxIdxRequests == 2    \* requests submitted to the indexer directly
MaxIdxCount == 1       \* largest count in a directly submitted QueryState
MaxRequests == 2       \* outbound P2P requests issued
MaxConnections == 1    \* connections the swarm establishes in a run
MaxPerPeer == 1        \* simultaneous connections to one peer
MaxCodecOps == 3       \* sign / JSON operations applied to one generated state

\* ------------------------------------------------------- program constants
PRICE == 10            \* indexer-proxy/src/payg.rs:39

\* ------------------------------------------------------------ input domains
Deployments == {"d1", "d2"}
ChannelIds  == {1, 2}
Amounts     == {10}
Expirations == {86400}
LastPrices  == {5}              \* coordinator's answer to channelOpen
UserKeys    == {"ku1", "ku2"}   \* keys of the end users of the consumer proxy
SignerKey   == "kp"             \* COMMAND.signer of the consumer proxy
ControllerKey == "ki"           \* ACCOUNT.controller_sk of the indexer
ContractAddr  == "actr"         \* COMMAND.contract of the consumer proxy
IndexerAddr   == "aidx"
CliKey        == "ku1"          \* consumer_sk of the example consumer
CliAmounts    == {20}
CliLastPrices == {10}
JunkAddr      == "junk"         \* what ecrecover yields for a foreign payload
RecoverError  == "InvalidSignature"

\* address of a secret key (Key::address)
AddressOf(k) ==
  CASE k = "ku1" -> "au1"
    [] k = "ku2" -> "au2"
    [] k = "kp"  -> "ap"
    [] k = "ki"  -> "ai"
    [] OTHER     -> JunkAddr

\* recovery id (0 or 1) of the signature a key makes over a payload
RecIdOf(k, msg) == IF k = "ku2" THEN 1 ELSE 0

\* --------------------------------------------------------------- signatures
default_sign == [key |-> "none", msg |-> <<>>, v |-> 0]

\* Key::sign_message: v = 27 + recovery id
sign_message(k, payload) == [key |-> k, msg |-> payload, v |-> 27 + RecIdOf(k, payload)]

\* the match on sign.v shared by convert_sign_to_bytes and convert_recovery_sign
recovery_id(v) ==
  CASE v = 27 -> 0
    [] v = 28 -> 1
    [] v >= 35 -> (v - 1) % 2
    [] OTHER -> v

convert_sign_to_bytes(sign) == [sign EXCEPT !.v = ((recovery_id(sign.v) % 256) + 27) % 256]

convert_sign_to_string(sign) == convert_sign_to_bytes(sign)

\* convert_string_to_sign that leaves v at 0 instead of reading bytes[64]
convert_string_to_sign_short(s) == [s EXCEPT !.v = 0]

\* hex::decode, then r, s, v = bytes[64]
convert_string_to_sign(s) == s

\* the digits of a U256 in a base, most significant first: to_string (base 10)
\* and the digits format!("{:#X}") writes after "0x" (base 16)
RECURSIVE digits(_, _)
digits(n, base) ==
  IF n < base THEN <<n>> ELSE Append(digits(n \div base, base), n % base)

\* the U256 a digit string stands for: from_dec_str (base 10) and parse of the
\* digits after "0x" (base 16)
RECURSIVE number(_, _)
number(s, base) ==
  IF s = <<>> THEN 0
  ELSE number(SubSeq(s, 1, Len(s) - 1), base) * base + s[Len(s)]

\* convert_recovery_sign that passes v on as the recovery id
convert_recovery_sign_raw(sign) == <<[key |-> sign.key, msg |-> sign.msg], sign.v>>

convert_recovery_sign(sign) == <<[key |-> sign.key, msg |-> sign.msg], recovery_id(sign.v)>>

\* web3::signing::recover(payload, sig, id)
recover(payload, sig, id) ==
  IF sig.key = "none" \/ id \notin {0, 1} THEN RecoverError
  ELSE IF sig.msg = payload /\ id = RecIdOf(sig.key, sig.msg) THEN AddressOf(sig.key)
  ELSE JunkAddr

\* --------------------------------------------------------------- OpenState
OpenState_payload(s) ==
  <<"open", s.channel_id, s.indexer, s.consumer, s.amount, s.expiration, s.callback>>

OpenState_sign(s, k, is_consumer) ==
  IF is_consumer THEN [s EXCEPT !.consumer_sign = sign_message(k, OpenState_payload(s))]
  ELSE [s EXCEPT !.indexer_sign = sign_message(k, OpenState_payload(s))]

\* Ok((indexer, consumer)), or RecoverError in both places for Err
OpenState_recover(s) ==
  LET i == convert_recovery_sign(s.indexer_sign)
      c == convert_recovery_sign(s.consumer_sign)
      indexer  == recover(OpenState_payload(s), i[1], i[2])
      consumer == recover(OpenState_payload(s), c[1], c[2])
  IN IF indexer = RecoverError \/ consumer = RecoverError
       THEN <<RecoverError, RecoverError>>
       ELSE <<indexer, consumer>>

OpenState_consumer_generate(channel_id, indexer, consumer, amount, expiration, callback, dep, k) ==
  OpenState_sign([channel_id |-> channel_id, indexer |-> indexer, consumer |-> consumer,
                  amount |-> amount, expiration |-> expiration, callback |-> callback,
                  deployment_id |-> dep,
                  consumer_sign |-> default_sign, indexer_sign |-> default_sign,
                  next_price |-> 0], k, TRUE)

OpenState_to_json(s) ==
  [s EXCEPT !.channel_id = <<"0x", digits(s.channel_id, 16)>>,
            !.indexer = <<"0x", s.indexer>>,
            !.consumer = <<"0x", s.consumer>>,
            !.amount = digits(s.amount, 10),
            !.expiration = digits(s.expiration, 10),
            !.callback = <<"hex", s.callback>>,
            !.indexer_sign = convert_sign_to_string(s.indexer_sign),
            !.consumer_sign = convert_sign_to_string(s.consumer_sign),
            !.next_price = digits(s.next_price, 10)]

OpenState_from_json(j) ==
  [j EXCEPT !.channel_id = number(j.channel_id[2], 16),
            !.indexer = j.indexer[2],
            !.consumer = j.consumer[2],
            !.amount = number(j.amount, 10),
            !.expiration = number(j.expiration, 10),
            !.callback = j.callback[2],
            !.indexer_sign = convert_string_to_sign(j.indexer_sign),
            !.consumer_sign = convert_string_to_sign(j.consumer_sign),
            !.next_price = number(j.next_price, 10)]

\* -------------------------------------------------------------- QueryState
QueryState_payload(s) == <<"query", s.channel_id, s.count, s.price, s.is_final>>

\* sign that writes the signature into both slots
QueryState_sign_both(s, k, is_consumer) ==
  [s EXCEPT !.consumer_sign = sign_message(k, QueryState_payload(s)),
            !.indexer_sign = sign_message(k, QueryState_payload(s))]

QueryState_sign(s, k, is_consumer) ==
  IF is_consumer THEN [s EXCEPT !.consumer_sign = sign_message(k, QueryState_payload(s))]
  ELSE [s EXCEPT !.indexer_sign = sign_message(k, QueryState_payload(s))]

QueryState_recover(s) ==
  LET i == convert_recovery_sign(s.indexer_sign)
      c == convert_recovery_sign(s.consumer_sign)
      indexer  == recover(QueryState_payload(s), i[1], i[2])
      consumer == recover(QueryState_payload(s), c[1], c[2])
  IN IF indexer = RecoverError \/ consumer = RecoverError
       THEN <<RecoverError, RecoverError>>
       ELSE <<indexer, consumer>>

QueryState_consumer_generate(channel_id, indexer, consumer, count, price, is_final, k) ==
  QueryState_sign([channel_id |-> channel_id, indexer |-> indexer, consumer |-> consumer,
                   count |-> count, price |-> price, is_final |-> is_final,
                   consumer_sign |-> default_sign, indexer_sign |-> default_sign,
                   next_price |-> 0], k, TRUE)

QueryState_to_json(s) ==
  [s EXCEPT !.channel_id = <<"0x", digits(s.channel_id, 16)>>,
            !.indexer = <<"0x", s.indexer>>,
            !.consumer = <<"0x", s.consumer>>,
            !.count = digits(s.count, 10),
            !.price = digits(s.price, 10),
            !.indexer_sign = convert_sign_to_string(s.indexer_sign),
            !.consumer_sign = convert_sign_to_string(s.consumer_sign),
            !.next_price = digits(s.next_price, 10)]

QueryState_from_json(j) ==
  [j EXCEPT !.channel_id = number(j.channel_id[2], 16),
            !.indexer = j.indexer[2],
            !.consumer = j.consumer[2],
            !.count = number(j.count, 10),
            !.price = number(j.price, 10),
            !.indexer_sign = convert_string_to_sign(j.indexer_sign),
            !.consumer_sign = convert_string_to_sign(j.consumer_sign),
            !.next_price = number(j.next_price, 10)]

\* ----------------------------------------------------------------- indexer
\* Outcomes of the indexer's external calls: the project lookup, the back-end
\* data service and the coordinator.
QueryOutcomes == {"ok", "no_project", "backend_fail", "coord_fail"}

\* open_state: parse, countersign, recover (the recovered consumer is not
\* used), notify the coordinator, take its lastPrice as next_price.
open_state(body, coord_ok, last_price) ==
  LET parsed == OpenState_from_json(body)
      signed == OpenState_sign(parsed, ControllerKey, FALSE)
  IN IF OpenState_recover(signed)[2] = RecoverError
       THEN [ok |-> FALSE, err |-> "InvalidSignature", state |-> body, notified |-> FALSE]
     ELSE IF ~coord_ok
       THEN [ok |-> FALSE, err |-> "ServiceException", state |-> body, notified |-> TRUE]
     ELSE [ok |-> TRUE, err |-> "none",
           state |-> OpenState_to_json([signed EXCEPT !.next_price = last_price]),
           notified |-> TRUE]

\* query_state: project lookup, parse, next_price := PRICE, countersign,
\* recover (the recovered signer is not used), back-end query, channelUpdate.
query_state(state, outcome) ==
  LET parsed == [QueryState_from_json(state) EXCEPT !.next_price = PRICE]
      signed == QueryState_sign(parsed, ControllerKey, FALSE)
      fail(e, s, n) == [ok |-> FALSE, err |-> e, state |-> state,
                        served |-> s, notified |-> n]
  IN IF outcome = "no_project" THEN fail("InvalidProjectId", FALSE, FALSE)
     ELSE IF QueryState_recover(signed)[2] = RecoverError
       THEN fail("InvalidSignature", FALSE, FALSE)
     ELSE IF outcome = "backend_fail" THEN fail("ServiceException", FALSE, FALSE)
     ELSE IF outcome = "coord_fail" THEN fail("ServiceException", TRUE, TRUE)
     ELSE [ok |-> TRUE, err |-> "none", state |-> QueryState_to_json(signed),
           served |-> TRUE, notified |-> TRUE]

\* ------------------------------------------------- consumer proxy: the store
VARIABLES
  CHANNELS,    \* consumer proxy: hex(deployment_id) -> StateChannel
  tasks,       \* consumer proxy: the invocations of query_handler / open_payg
  returned,    \* consumer proxy: QueryStates the indexer returned, per invocation
  renewing,    \* consumer proxy: renew calls between their two lock acquisitions
  served,      \* consumer proxy: successful queries per stored channel
  guard        \* consumer proxy: the invocation holding the write guard of CHANNELS

chanVars == <<CHANNELS, tasks, returned, renewing, served, guard>>

\* no invocation holds the write guard
NoWriter == 0

\* the write guard with its holder keeping it
released_kept(holder) == holder

\* the write guard after its holder's critical section: the temporary of
\* CHANNELS.write().await goes out of scope, or drop(channels) runs
released(holder) == NoWriter

TaskIds == 1..MaxTasks
AllTaskIds == 1..MaxSerialTasks
NoState == [none |-> TRUE]
NoKey   == ""          \* String::new() in renew

IdleTask == [pc |-> "idle", kind |-> "none", dep |-> NoKey, state |-> NoState,
             chan |-> NoState, result |-> "none", mismatch |-> FALSE,
             installed |-> FALSE]

DoneTask(kind, result, mismatch, installed) ==
  [IdleTask EXCEPT !.pc = "done", !.kind = kind, !.result = result,
                   !.mismatch = mismatch, !.installed = installed]

\* StateChannel::get: Ok(the clone of the record, taken under the read guard) or
\* Err(InvalidRequest)
get(deployment) ==
  IF deployment \in DOMAIN CHANNELS
    THEN [ok |-> TRUE, channel |-> CHANNELS[deployment]]
    ELSE [ok |-> FALSE, channel |-> NoState]

\* the record of add with the status left Finalized
new_channel_finalized(state) ==
  [id |-> state.channel_id, status |-> "Finalized",
   indexer |-> state.indexer, consumer |-> state.consumer,
   current_count |-> 0, onchain_count |-> 0, remote_count |-> 0,
   balance |-> state.amount, expiration_at |-> state.expiration, challenge_at |-> 0,
   deployment_id |-> state.deployment_id,
   last_final |-> FALSE, last_price |-> state.next_price,
   last_indexer_sign |-> default_sign, last_consumer_sign |-> default_sign]

\* the record StateChannel::add builds from an OpenState
new_channel(state) ==
  [id |-> state.channel_id, status |-> "Open",
   indexer |-> state.indexer, consumer |-> state.consumer,
   current_count |-> 0, onchain_count |-> 0, remote_count |-> 0,
   balance |-> state.amount, expiration_at |-> state.expiration, challenge_at |-> 0,
   deployment_id |-> state.deployment_id,
   last_final |-> FALSE, last_price |-> state.next_price,
   last_indexer_sign |-> default_sign, last_consumer_sign |-> default_sign]

\* StateChannel::add: CHANNELS.write().insert(id, channel)
add(store, state) ==
  [k \in DOMAIN store \cup {state.deployment_id} |->
     IF k = state.deployment_id THEN new_channel(state) ELSE store[k]]

\* StateChannel::next_query on the clone
next_query(self, k) ==
  LET is_final == FALSE
      count == self.current_count + 1
  IN QueryState_consumer_generate(self.id, self.indexer, self.consumer, count,
                                  self.last_price, is_final, k)

\* renew with the count written to onchain_count instead of current_count
renewed_onchain(channel, state) ==
  [channel EXCEPT !.onchain_count = state.count,
                  !.remote_count = state.count,
                  !.last_price = state.next_price,
                  !.last_final = state.is_final,
                  !.last_indexer_sign = state.indexer_sign,
                  !.last_consumer_sign = state.consumer_sign]

\* renew with remote_count left as it is
renewed_remote_kept(channel, state) ==
  [channel EXCEPT !.current_count = state.count,
                  !.last_price = state.next_price,
                  !.last_final = state.is_final,
                  !.last_indexer_sign = state.indexer_sign,
                  !.last_consumer_sign = state.consumer_sign]

\* renew that also flips the status between Open and Finalized
renewed_status_flipped(channel, state) ==
  [channel EXCEPT !.status = IF @ = "Open" THEN "Finalized" ELSE "Open",
                  !.current_count = state.count,
                  !.remote_count = state.count,
                  !.last_price = state.next_price,
                  !.last_final = state.is_final,
                  !.last_indexer_sign = state.indexer_sign,
                  !.last_consumer_sign = state.consumer_sign]

\* the assignments of renew to the record found
renewed(channel, state) ==
  [channel EXCEPT !.current_count = state.count,
                  !.remote_count = state.count,
                  !.last_price = state.next_price,
                  !.last_final = state.is_final,
                  !.last_indexer_sign = state.indexer_sign,
                  !.last_consumer_sign = state.consumer_sign]

\* ------------------------------------------------ consumer proxy: POST /open
\* The body of an open request: the user's fields and the user's signature,
\* made by some key over the two-field payload the server checks, over the
\* three-field payload the bundled client signs, or left all-zero.
OpenSigns(channel_id, amount, expiration) ==
  {default_sign}
  \cup {sign_message(k, <<"open_payg", channel_id, amount>>) : k \in UserKeys}
  \cup {sign_message(k, <<"open_payg", channel_id, amount, expiration>>) : k \in UserKeys}

\* open_payg up to the request to the indexer: the recovered signer of
\* (channel_id, amount), or RecoverError
open_payg_signer(channel_id, amount, sign) ==
  LET i == convert_recovery_sign(sign)
  IN recover(<<"open_payg", channel_id, amount>>, i[1], i[2])

\* the check of open_payg: "ok" or the rejection
open_payg_check(channel_id, amount, consumer, sign) ==
  LET signer == open_payg_signer(channel_id, amount, sign)
  IN IF signer = RecoverError THEN "InvalidSignature"
     ELSE IF signer # consumer THEN "InvalidSignature"
     ELSE "ok"

OpenPaygStart(t) ==
  /\ tasks[t].pc = "idle"
  /\ \A u \in AllTaskIds : u < t => tasks[u].pc # "idle"
  /\ \E channel_id \in ChannelIds, amount \in Amounts, expiration \in Expirations,
        consumer \in {AddressOf(k) : k \in UserKeys} :
       \E sign \in OpenSigns(channel_id, amount, expiration) :
         LET signer == open_payg_signer(channel_id, amount, sign)
             mismatch == signer # RecoverError /\ signer # consumer
             check == open_payg_check(channel_id, amount, consumer, sign)
         IN IF check # "ok"
              THEN tasks' = [tasks EXCEPT ![t] = DoneTask("open", check, mismatch, FALSE)]
              ELSE \E dep \in Deployments :
                     LET state == OpenState_consumer_generate(channel_id, IndexerAddr,
                                    ContractAddr, amount, expiration,
                                    convert_sign_to_bytes(sign), dep, SignerKey)
                     IN tasks' = [tasks EXCEPT ![t] =
                          [IdleTask EXCEPT !.pc = "await_indexer", !.kind = "open",
                                           !.dep = dep, !.mismatch = mismatch,
                                           !.state = OpenState_to_json(state)]]
  /\ UNCHANGED <<CHANNELS, returned, renewing, served, guard>>

\* the indexer's answer arrives: Ok installs the channel, Err is ServiceException
OpenPaygFinish(t) ==
  /\ tasks[t].pc = "await_indexer"
  /\ tasks[t].kind = "open"
  /\ \E coord_ok \in BOOLEAN, last_price \in LastPrices :
       LET res == open_state(tasks[t].state, coord_ok, last_price)
           state == OpenState_from_json(res.state)
       IN IF res.ok
            THEN /\ guard = NoWriter
                 /\ guard' = released(t)
                 /\ CHANNELS' = add(CHANNELS, state)
                 /\ served' = [k \in DOMAIN CHANNELS' |->
                                 IF k = state.deployment_id THEN 0 ELSE served[k]]
                 /\ tasks' = [tasks EXCEPT ![t] = DoneTask("open", "Ok", tasks[t].mismatch, TRUE)]
            ELSE /\ tasks' = [tasks EXCEPT ![t] =
                                DoneTask("open", "ServiceException", tasks[t].mismatch, FALSE)]
                 /\ UNCHANGED <<CHANNELS, served, guard>>
  /\ UNCHANGED <<returned, renewing>>

\* ------------------------------------------ consumer proxy: POST /query/{id}
\* query_handler up to the request to the indexer
QueryStart(t) ==
  /\ tasks[t].pc = "idle"
  /\ \A u \in AllTaskIds : u < t => tasks[u].pc # "idle"
  /\ guard = NoWriter
  /\ \E dep \in Deployments :
       LET got == get(dep)
           channel == got.channel
       IN IF ~got.ok
            THEN tasks' = [tasks EXCEPT ![t] = DoneTask("query", "InvalidRequest", FALSE, FALSE)]
            ELSE tasks' = [tasks EXCEPT ![t] =
                     [IdleTask EXCEPT !.pc = "await_indexer", !.kind = "query",
                                      !.dep = dep, !.chan = channel,
                                      !.state = QueryState_to_json(next_query(channel, SignerKey))]]
  /\ UNCHANGED <<CHANNELS, returned, renewing, served, guard>>

\* the indexer's answer arrives: Ok parses the returned state and replies
\* with the data, Err is ServiceException; the store is not touched
QueryFinish(t) ==
  /\ tasks[t].pc = "await_indexer"
  /\ tasks[t].kind = "query"
  /\ \E outcome \in QueryOutcomes :
       LET res == query_state(tasks[t].state, outcome)
           dep == tasks[t].dep
       IN IF res.ok
            THEN /\ returned' = returned \cup {[task |-> t, state |-> QueryState_from_json(res.state)]}
                 /\ served' = IF dep \in DOMAIN CHANNELS /\ CHANNELS[dep].id = tasks[t].chan.id
                                THEN [served EXCEPT ![dep] = @ + 1] ELSE served
                 /\ tasks' = [tasks EXCEPT ![t] = DoneTask("query", "Ok", FALSE, FALSE)]
            ELSE /\ tasks' = [tasks EXCEPT ![t] =
                                DoneTask("query", "ServiceException", FALSE, FALSE)]
                 /\ UNCHANGED <<returned, served>>
  /\ UNCHANGED <<CHANNELS, renewing, guard>>

\* --------------------------------------------------- consumer proxy: renew
\* renew(cid, state), first guard: the key of a record whose id is cid (the
\* last one the iteration meets), or the empty key
renew_keys(cid) ==
  IF \E k \in DOMAIN CHANNELS : CHANNELS[k].id = cid
    THEN {k \in DOMAIN CHANNELS : CHANNELS[k].id = cid}
    ELSE {NoKey}

RenewLookup ==
  /\ guard = NoWriter
  /\ \E r \in returned :
       \E id \in renew_keys(r.state.channel_id) :
         /\ returned' = returned \ {r}
         /\ renewing' = renewing \cup {[task |-> r.task, id |-> id, state |-> r.state]}
         /\ guard' = released(r.task)
  /\ UNCHANGED <<CHANNELS, tasks, served>>

\* renew, second guard: get_mut(&id) and the assignments
RenewUpdate ==
  /\ guard = NoWriter
  /\ \E r \in renewing :
       /\ renewing' = renewing \ {r}
       /\ guard' = released(r.task)
       /\ CHANNELS' = IF r.id \in DOMAIN CHANNELS
                        THEN [CHANNELS EXCEPT ![r.id] = renewed(@, r.state)]
                        ELSE CHANNELS
  /\ UNCHANGED <<tasks, returned, served>>

ChanInit ==
  /\ CHANNELS = <<>>
  /\ tasks = [t \in AllTaskIds |-> IdleTask]
  /\ returned = {}
  /\ renewing = {}
  /\ served = <<>>
  /\ guard = NoWriter


\* ------------------------------------------------- example consumer (REPL)
VARIABLES
  channels,    \* example consumer: Vec<StateChannel>
  cid,         \* example consumer: index of the current channel
  cli_sent,    \* example consumer: the QueryStates emitted, per channel index
  cli_result,  \* example consumer: outcome of the last command
  cli_tx       \* example consumer: the last (method, channel id, count, final) sent on chain

cliVars == <<channels, cid, cli_sent, cli_result, cli_tx>>

\* the record pushed by "state-channel open"
cli_opened(state) ==
  [id |-> state.channel_id, count |-> 0, amount |-> state.amount,
   expiration |-> state.expiration, indexer |-> state.indexer,
   consumer |-> state.consumer, last_price |-> state.next_price,
   last_final |-> FALSE, last_indexer_sign |-> state.indexer_sign,
   last_consumer_sign |-> state.consumer_sign]

\* the QueryState the "query" command generates for a channel record
cli_next_state(ch, k) ==
  LET is_final == ch.count * ch.last_price >= ch.amount
      next_count == ch.count + 1
  IN QueryState_consumer_generate(ch.id, ch.indexer, ch.consumer, next_count,
                                  ch.last_price, is_final, k)

\* the assignments of the "query" command on Ok
cli_updated(ch, state) ==
  [ch EXCEPT !.count = state.count, !.last_price = state.next_price,
             !.last_final = state.is_final,
             !.last_indexer_sign = state.indexer_sign,
             !.last_consumer_sign = state.consumer_sign]

\* send_state: the tuple submitted to the contract
send_state(ch, method) == <<method, ch.id, ch.count, ch.last_final>>

\* "state-channel open <indexer> <amount> <expiration>"
CliOpen ==
  /\ Len(channels) < MaxCliChannels
  /\ \E channel_id \in ChannelIds, amount \in CliAmounts, expiration \in Expirations,
        coord_ok \in BOOLEAN, last_price \in CliLastPrices :
       LET state == OpenState_consumer_generate(channel_id, IndexerAddr,
                      AddressOf(CliKey), amount, expiration, <<>>, "d1", CliKey)
           res == open_state(OpenState_to_json(state), coord_ok, last_price)
       IN IF res.ok
            THEN /\ channels' = Append(channels, cli_opened(OpenState_from_json(res.state)))
                 /\ cid' = Len(channels)
                 /\ cli_sent' = Append(cli_sent, <<>>)
                 /\ cli_result' = "opened"
            ELSE /\ cli_result' = res.err
                 /\ UNCHANGED <<channels, cid, cli_sent>>
  /\ UNCHANGED cli_tx

\* "set channel <n>"
CliSetChannel ==
  /\ \E n \in 0..(Len(channels) - 1) :
       /\ n # cid
       /\ cid' = n
  /\ cli_result' = "set"
  /\ UNCHANGED <<channels, cli_sent, cli_tx>>

\* "query <query>": the whole command, the answer of the indexer included
CliQuery ==
  /\ IF Len(channels) = 0
       THEN /\ cli_result' = "No Channel"
            /\ UNCHANGED <<channels, cid, cli_sent, cli_tx>>
       ELSE LET ch == channels[cid + 1]
                state == cli_next_state(ch, CliKey)
            IN /\ Len(cli_sent[cid + 1]) < MaxCliCount
               /\ cli_sent' = [cli_sent EXCEPT ![cid + 1] = Append(@, state)]
               /\ \E outcome \in QueryOutcomes :
                    LET res == query_state(QueryState_to_json(state), outcome)
                        back == QueryState_from_json(res.state)
                    IN IF res.ok
                         THEN /\ channels' = [channels EXCEPT ![cid + 1] = cli_updated(@, back)]
                              /\ cli_result' = "Ok"
                              /\ cli_tx' = IF back.count % 5 = 0
                                   THEN send_state(cli_updated(ch, back), "checkpoint")
                                   ELSE cli_tx
                         ELSE /\ cli_result' = res.err
                              /\ UNCHANGED <<channels, cli_tx>>
               /\ UNCHANGED cid

\* "state-channel checkpoint"
CliCheckpoint ==
  /\ Len(channels) > 0
  /\ cli_tx' = send_state(channels[cid + 1], "checkpoint")
  /\ cli_result' = "checkpoint"
  /\ UNCHANGED <<channels, cid, cli_sent>>

CliInit ==
  /\ channels = <<>>
  /\ cid = 0
  /\ cli_sent = <<>>
  /\ cli_result = "none"
  /\ cli_tx = <<"none", 0, 0, FALSE>>


\* ------------------------------------------------ indexer: direct requests
VARIABLES
  idx_replies,   \* indexer: the countersigned QueryStates it returned with Ok
  idx_opens,     \* indexer: the countersigned OpenStates it returned with Ok
  idx_updates,   \* indexer: the channelUpdate mutations sent to the coordinator
  idx_queries,   \* indexer: the states whose query was forwarded to the back-end
  idx_last,      \* indexer: handler and error of the last request
  idx_handled    \* indexer: number of requests handled

idxVars == <<idx_replies, idx_opens, idx_updates, idx_queries, idx_last, idx_handled>>

\* the QueryStates a peer can submit: signed by the key of the named consumer,
\* by another key, over another count, or not signed at all
QueryRequests ==
  LET base == {QueryState_consumer_generate(c, IndexerAddr, AddressOf(u), n, PRICE, FALSE, k) :
                 c \in ChannelIds, u \in UserKeys, n \in 1..MaxIdxCount, k \in UserKeys}
  IN base
     \cup {[s EXCEPT !.consumer_sign = default_sign] : s \in base}
     \cup {[s EXCEPT !.count = s.count + 1] : s \in base}

\* handle(infos), method "query" (P2P): parse, next_price := PRICE, countersign,
\* recover (the recovered consumer is not used), reply Sign(state)
handle_query(state) ==
  LET parsed == [QueryState_from_json(state) EXCEPT !.next_price = PRICE]
      signed == QueryState_sign(parsed, ControllerKey, FALSE)
  IN IF QueryState_recover(signed)[2] = RecoverError
       THEN [ok |-> FALSE, err |-> "InvalidSignature", state |-> state,
             served |-> FALSE, notified |-> FALSE]
       ELSE [ok |-> TRUE, err |-> "none", state |-> QueryState_to_json(signed),
             served |-> FALSE, notified |-> FALSE]

\* authorize (the with_state filter) followed by payg_handler: parse,
\* next_price := PRICE, countersign, recover, channelUpdate, then the project
\* lookup and the back-end query
authorize(state, outcome) ==
  LET parsed == [QueryState_from_json(state) EXCEPT !.next_price = PRICE]
      signed == QueryState_sign(parsed, ControllerKey, FALSE)
      fail(e, s, n) == [ok |-> FALSE, err |-> e, state |-> state,
                        served |-> s, notified |-> n]
  IN IF QueryState_recover(signed)[2] = RecoverError
       THEN fail("InvalidSignature", FALSE, FALSE)
     ELSE IF outcome = "coord_fail" THEN fail("ServiceException", FALSE, TRUE)
     ELSE IF outcome = "no_project" THEN fail("InvalidProjectId", FALSE, TRUE)
     ELSE IF outcome = "backend_fail" THEN fail("ServiceException", FALSE, TRUE)
     ELSE [ok |-> TRUE, err |-> "none", state |-> QueryState_to_json(signed),
           served |-> TRUE, notified |-> TRUE]

\* the bookkeeping common to the three entry points
IdxRecord(via, state, res) ==
  /\ idx_handled < MaxIdxRequests
  /\ idx_handled' = idx_handled + 1
  /\ idx_last' = [via |-> via, err |-> res.err]
  /\ idx_replies' = IF res.ok THEN idx_replies \cup {QueryState_from_json(res.state)}
                    ELSE idx_replies
  /\ idx_updates' = IF res.notified
                      THEN idx_updates \cup {<<state.channel_id, state.count>>}
                      ELSE idx_updates
  /\ idx_queries' = IF res.served
                      THEN idx_queries \cup {<<state.channel_id, state.count>>}
                      ELSE idx_queries
  /\ UNCHANGED idx_opens

\* POST /payg/{id} served by query_state
IdxQueryState ==
  \E state \in QueryRequests, outcome \in QueryOutcomes :
    IdxRecord("query_state", state, query_state(QueryState_to_json(state), outcome))

\* Request::Query / Request::StateChannel served by handle
IdxP2pQuery ==
  \E state \in QueryRequests :
    IdxRecord("handle", state, handle_query(QueryState_to_json(state)))

\* POST /payg/{id} served by authorize and payg_handler
IdxAuthorize ==
  \E state \in QueryRequests, outcome \in QueryOutcomes :
    IdxRecord("authorize", state, authorize(QueryState_to_json(state), outcome))

\* the OpenStates a peer can submit: signed by the key of the named consumer,
\* by another key, or not signed at all
OpenRequests ==
  LET base == {OpenState_consumer_generate(c, IndexerAddr, AddressOf(u), a, e, <<>>, "d1", k) :
                 c \in ChannelIds, u \in UserKeys, a \in Amounts, e \in Expirations,
                 k \in UserKeys}
  IN base \cup {[s EXCEPT !.consumer_sign = default_sign] : s \in base}

\* POST /open served by open_state
IdxOpenState ==
  \E state \in OpenRequests, coord_ok \in BOOLEAN, last_price \in LastPrices :
    LET res == open_state(OpenState_to_json(state), coord_ok, last_price)
    IN /\ idx_handled < MaxIdxRequests
       /\ idx_handled' = idx_handled + 1
       /\ idx_last' = [via |-> "open_state", err |-> res.err]
       /\ idx_opens' = IF res.ok THEN idx_opens \cup {OpenState_from_json(res.state)}
                        ELSE idx_opens
       /\ UNCHANGED <<idx_replies, idx_updates, idx_queries>>

IdxInit ==
  /\ idx_replies = {}
  /\ idx_opens = {}
  /\ idx_updates = {}
  /\ idx_queries = {}
  /\ idx_last = [via |-> "none", err |-> "none"]
  /\ idx_handled = 0


\* ------------------------------------------------------ P2P RPC behaviour
VARIABLES
  next_request_id,            \* Rpc: the next (local) request id
  connected,                  \* Rpc: peer -> its established connections
  pending_outbound_requests,  \* Rpc: peer -> requests waiting for a connection
  pending_events,             \* Rpc: events to return from poll
  next_connection,            \* swarm: the next ConnectionId
  handler_event               \* the RpcHandlerEvent the last step injected, if any

rpcVars == <<next_request_id, connected, pending_outbound_requests, pending_events,
             next_connection, handler_event>>

\* no RpcHandlerEvent was injected
NoHandlerEvent == [kind |-> "none", peer |-> "none", connection |-> 0, request_id |-> 0]

Peers == {"p1", "p2"}

\* Connection::new
new_connection(id) ==
  [id |-> id, pending_outbound_responses |-> {}, pending_inbound_responses |-> {}]

\* next_request_id without the increment
next_request_id_kept(n) == n

\* Rpc::next_request_id: the counter after handing out its value
next_request_id_after(n) == n + 1

\* the index try_send_request picks among the connections of a peer
connection_index(request_id, connections) == (request_id % Len(connections)) + 1

\* try_send_request on the connections of one peer: the connections with the
\* request recorded on the one picked
try_send_request(connections, request_id) ==
  LET ix == connection_index(request_id, connections)
  IN [connections EXCEPT ![ix].pending_inbound_responses = @ \cup {request_id}]

RECURSIVE send_all(_, _)
\* inject_connection_established: every queued request goes through try_send_request
send_all(connections, queue) ==
  IF queue = <<>> THEN connections
  ELSE send_all(try_send_request(connections, Head(queue)), Tail(queue))

RECURSIVE notify_all(_, _)
notify_all(peer, queue) ==
  IF queue = <<>> THEN <<>>
  ELSE <<[type |-> "NotifyHandler", peer |-> peer, request_id |-> Head(queue),
          error |-> "none"]>> \o notify_all(peer, Tail(queue))

\* the failures of the queued requests not reported
fail_none(peer, queue, error) == <<>>

RECURSIVE fail_all(_, _, _)
fail_all(peer, queue, error) ==
  IF queue = <<>> THEN <<>>
  ELSE <<[type |-> "OutboundFailure", peer |-> peer, request_id |-> Head(queue),
          error |-> error]>> \o fail_all(peer, Tail(queue), error)

RECURSIVE SetToSeq(_)
\* the order in which a HashSet is iterated: any
SetToSeq(S) ==
  IF S = {} THEN <<>>
  ELSE LET x == CHOOSE y \in S : \A z \in S : y <= z
       IN <<x>> \o SetToSeq(S \ {x})

\* Rpc::request
RpcRequest(peer) ==
  /\ next_request_id <= MaxRequests
  /\ LET request_id == next_request_id
     IN /\ next_request_id' = next_request_id_after(next_request_id)
        /\ IF connected[peer] # <<>>
             THEN /\ connected' = [connected EXCEPT
                                     ![peer] = try_send_request(@, request_id)]
                  /\ pending_events' = Append(pending_events,
                       [type |-> "NotifyHandler", peer |-> peer,
                        request_id |-> request_id, error |-> "none"])
                  /\ UNCHANGED pending_outbound_requests
             ELSE /\ pending_events' = Append(pending_events,
                       [type |-> "Dial", peer |-> peer, request_id |-> 0,
                        error |-> "none"])
                  /\ pending_outbound_requests' =
                       [pending_outbound_requests EXCEPT ![peer] = Append(@, request_id)]
                  /\ UNCHANGED connected
  /\ handler_event' = NoHandlerEvent
  /\ UNCHANGED next_connection

\* inject_connection_established that sends the queued requests of the peer
\* and leaves them in the queue
RpcConnectionEstablished_queued(peer) ==
  /\ next_connection <= MaxConnections
  /\ Len(connected[peer]) < MaxPerPeer
  /\ next_connection' = next_connection + 1
  /\ LET pushed == Append(connected[peer], new_connection(next_connection))
         queue == pending_outbound_requests[peer]
     IN IF Len(connected[peer]) = 0
          THEN /\ connected' = [connected EXCEPT ![peer] = send_all(pushed, queue)]
               /\ pending_events' = pending_events \o notify_all(peer, queue)
          ELSE /\ connected' = [connected EXCEPT ![peer] = pushed]
               /\ UNCHANGED pending_events
  /\ handler_event' = NoHandlerEvent
  /\ UNCHANGED <<next_request_id, pending_outbound_requests>>

\* Rpc::inject_connection_established
inject_connection_established(peer) ==
  /\ next_connection' = next_connection + 1
  /\ LET other_established == Len(connected[peer])
         pushed == Append(connected[peer], new_connection(next_connection))
         queue == pending_outbound_requests[peer]
     IN IF other_established = 0
          THEN /\ connected' = [connected EXCEPT ![peer] = send_all(pushed, queue)]
               /\ pending_outbound_requests' =
                    [pending_outbound_requests EXCEPT ![peer] = <<>>]
               /\ pending_events' = pending_events \o notify_all(peer, queue)
          ELSE /\ connected' = [connected EXCEPT ![peer] = pushed]
               /\ UNCHANGED <<pending_outbound_requests, pending_events>>
  /\ handler_event' = NoHandlerEvent
  /\ UNCHANGED next_request_id

\* the swarm reports a new connection to a peer
RpcConnectionEstablished(peer) ==
  /\ next_connection <= MaxConnections
  /\ Len(connected[peer]) < MaxPerPeer
  /\ inject_connection_established(peer)

\* Rpc::inject_connection_closed
RpcConnectionClosed(peer) ==
  /\ \E p \in 1..Len(connected[peer]) :
       LET connection == connected[peer][p]
           rest == [i \in 1..(Len(connected[peer]) - 1) |->
                      IF i < p THEN connected[peer][i] ELSE connected[peer][i + 1]]
           inbound == [i \in 1..Cardinality(connection.pending_outbound_responses) |->
                         [type |-> "InboundFailure", peer |-> peer,
                          request_id |-> SetToSeq(connection.pending_outbound_responses)[i],
                          error |-> "ConnectionClosed"]]
       IN /\ connected' = [connected EXCEPT ![peer] = rest]
          /\ pending_events' = pending_events \o inbound
               \o fail_all(peer, SetToSeq(connection.pending_inbound_responses),
                           "ConnectionClosed")
  /\ handler_event' = NoHandlerEvent
  /\ UNCHANGED <<next_request_id, pending_outbound_requests, next_connection>>

\* Rpc::inject_dial_failure
RpcDialFailure(peer) ==
  /\ pending_outbound_requests[peer] # <<>>
  /\ pending_outbound_requests' = [pending_outbound_requests EXCEPT ![peer] = <<>>]
  /\ pending_events' = pending_events
       \o fail_all(peer, pending_outbound_requests[peer], "DialFailure")
  /\ handler_event' = NoHandlerEvent
  /\ UNCHANGED <<next_request_id, connected, next_connection>>

\* every outbound failure reported as UnsupportedProtocols
outbound_event_unsupported(peer, request_id, kind) ==
  IF kind = "Response"
    THEN [type |-> "Response", peer |-> peer, request_id |-> request_id, error |-> "none"]
    ELSE [type |-> "OutboundFailure", peer |-> peer, request_id |-> request_id,
          error |-> "UnsupportedProtocols"]

\* the RpcEvent inject_event generates for a handler event that ends an
\* outbound request
outbound_event(peer, request_id, kind) ==
  IF kind = "Response"
    THEN [type |-> "Response", peer |-> peer, request_id |-> request_id, error |-> "none"]
    ELSE [type |-> "OutboundFailure", peer |-> peer, request_id |-> request_id,
          error |-> kind]

\* Rpc::inject_event for the three handler events that end an outbound
\* request: Response, OutboundTimeout, OutboundUnsupportedProtocols
RpcOutboundEnd(peer) ==
  /\ \E p \in 1..Len(connected[peer]) :
       \E request_id \in connected[peer][p].pending_inbound_responses :
         \E kind \in {"Response", "Timeout", "UnsupportedProtocols"} :
           /\ connected' = [connected EXCEPT
                              ![peer][p].pending_inbound_responses = @ \ {request_id}]
           /\ pending_events' = Append(pending_events,
                                        outbound_event(peer, request_id, kind))
           /\ handler_event' = [kind |-> kind, peer |-> peer,
                                 connection |-> connected[peer][p].id,
                                 request_id |-> request_id]
  /\ UNCHANGED <<next_request_id, pending_outbound_requests, next_connection>>

\* Rpc::poll
RpcPoll ==
  /\ pending_events # <<>>
  /\ pending_events' = Tail(pending_events)
  /\ handler_event' = NoHandlerEvent
  /\ UNCHANGED <<next_request_id, connected, pending_outbound_requests, next_connection>>

RpcInit ==
  /\ next_request_id = 1
  /\ connected = [p \in Peers |-> <<>>]
  /\ pending_outbound_requests = [p \in Peers |-> <<>>]
  /\ pending_events = <<>>
  /\ next_connection = 1
  /\ handler_event = NoHandlerEvent

\* ------------------------------------- P2P RPC behaviour: inbound requests
MaxInbound == 2        \* inbound requests the peers send
MaxInConnections == 2  \* connections the swarm establishes while they do

VARIABLES
  next_inbound_id,   \* Rpc: the counter every connection handler draws from
  waiting_requests,  \* Rpc: inbound request id -> the response channel, named
                     \* by the inbound substream that holds its receiving end
  inbound,           \* the inbound substreams: id, peer, connection, state and
                     \* the responses handed to the substream for the peer
  handed,            \* the ids response() has found a channel for
  responding         \* the id the last step called response() with, if any

inbVars == <<next_inbound_id, waiting_requests, inbound, handed, responding>>

\* no call of response()
NoResponse == [uid |-> 0, found |-> FALSE]

\* the counter of the handler without the increment
next_inbound_id_kept(n) == n

\* RpcHandler::listen_protocol: inbound_request_id after fetch_add(1)
next_inbound_id_after(n) == n + 1

\* HashMap::insert on waiting_requests
waiting_requests_insert(waiting, request_id, channel) ==
  [uid \in DOMAIN waiting \cup {request_id} |->
     IF uid = request_id THEN channel ELSE waiting[uid]]

\* the map of waiting_requests read without removing the entry
waiting_requests_get(waiting, uid) == waiting

\* HashMap::remove on waiting_requests: the map that is left
waiting_requests_remove(waiting, uid) ==
  [x \in DOMAIN waiting \ {uid} |-> waiting[x]]

\* oneshot::Sender::send: the value reaches the substream unless the
\* receiving end was dropped with it
channel_send(substreams, channel) ==
  IF substreams[channel].state # "ended"
    THEN [substreams EXCEPT ![channel].state = "answered", ![channel].sent = @ + 1]
    ELSE substreams

\* the substreams of the connections that are gone end
dropped(substreams, live) ==
  [ix \in DOMAIN substreams |->
     IF substreams[ix].connection \in live THEN substreams[ix]
     ELSE [substreams[ix] EXCEPT !.state = "ended"]]

\* the ids of the established connections
ConnectionIds(conns) ==
  UNION {{conns[peer][p].id : p \in 1..Len(conns[peer])} : peer \in Peers}

\* the swarm reports a new connection while peers send requests
RpcInConnectionEstablished(peer) ==
  /\ next_connection <= MaxInConnections
  /\ Len(connected[peer]) < MaxPerPeer
  /\ inject_connection_established(peer)
  /\ responding' = NoResponse
  /\ UNCHANGED <<next_inbound_id, waiting_requests, inbound, handed>>

\* RpcHandler::listen_protocol gives the substream its id and, once the
\* request is read, Rpc::inject_event gets RpcHandlerEvent::Request
RpcInboundRequest(peer) ==
  /\ Len(inbound) < MaxInbound
  /\ \E p \in 1..Len(connected[peer]) :
       LET request_id == next_inbound_id
           channel == Len(inbound) + 1
       IN /\ next_inbound_id' = next_inbound_id_after(next_inbound_id)
          /\ waiting_requests' =
               waiting_requests_insert(waiting_requests, request_id, channel)
          /\ pending_events' = Append(pending_events,
               [type |-> "Request", peer |-> peer, request_id |-> request_id,
                error |-> "none"])
          /\ connected' = [connected EXCEPT
               ![peer][p].pending_outbound_responses = @ \cup {request_id}]
          /\ inbound' = Append(inbound,
               [request_id |-> request_id, peer |-> peer,
                connection |-> connected[peer][p].id, state |-> "awaiting",
                sent |-> 0])
          /\ handler_event' = [kind |-> "Request", peer |-> peer,
                                connection |-> connected[peer][p].id,
                                request_id |-> request_id]
  /\ responding' = NoResponse
  /\ UNCHANGED <<next_request_id, pending_outbound_requests, next_connection, handed>>

\* Rpc::response
RpcResponse(uid) ==
  /\ IF uid \in DOMAIN waiting_requests
       THEN /\ waiting_requests' = waiting_requests_remove(waiting_requests, uid)
            /\ inbound' = channel_send(inbound, waiting_requests[uid])
            /\ handed' = handed \cup {uid}
            /\ responding' = [uid |-> uid, found |-> TRUE]
       ELSE /\ responding' = [uid |-> uid, found |-> FALSE]
            /\ UNCHANGED <<waiting_requests, inbound, handed>>
  /\ UNCHANGED next_inbound_id

\* the control method "response" of the JSON-RPC front: Event::Response in
\* the server loop
RpcResponseMethod(uid) ==
  /\ RpcResponse(uid)
  /\ UNCHANGED rpcVars

\* the server loop takes the next event of the behaviour and answers a request
RpcInPoll ==
  /\ RpcPoll
  /\ LET event == Head(pending_events)
     IN IF event.type = "Request"
          THEN RpcResponse(event.request_id)
          ELSE /\ responding' = NoResponse
               /\ UNCHANGED <<next_inbound_id, waiting_requests, inbound, handed>>

\* Rpc::inject_event for the three handler events that end an inbound
\* request: ResponseSent, ResponseOmission, InboundTimeout
RpcInboundEnd(peer) ==
  /\ \E p \in 1..Len(connected[peer]) :
       \E request_id \in connected[peer][p].pending_outbound_responses :
         \E ix \in DOMAIN inbound :
           \E kind \in {"ResponseSent", "ResponseOmission", "Timeout"} :
             /\ inbound[ix].request_id = request_id
             /\ inbound[ix].connection = connected[peer][p].id
             /\ inbound[ix].state # "ended"
             /\ kind = "ResponseSent" => inbound[ix].state = "answered"
             /\ kind = "ResponseOmission" =>
                  /\ inbound[ix].state = "awaiting"
                  /\ \/ request_id \notin DOMAIN waiting_requests
                     \/ waiting_requests[request_id] # ix
             /\ connected' = [connected EXCEPT
                  ![peer][p].pending_outbound_responses = @ \ {request_id}]
             /\ pending_events' = Append(pending_events,
                  IF kind = "ResponseSent"
                    THEN [type |-> "ResponseSent", peer |-> peer,
                          request_id |-> request_id, error |-> "none"]
                    ELSE [type |-> "InboundFailure", peer |-> peer,
                          request_id |-> request_id, error |-> kind])
             /\ inbound' = [inbound EXCEPT ![ix].state = "ended"]
             /\ handler_event' = [kind |-> kind, peer |-> peer,
                                   connection |-> connected[peer][p].id,
                                   request_id |-> request_id]
  /\ responding' = NoResponse
  /\ UNCHANGED <<next_request_id, pending_outbound_requests, next_connection,
                 next_inbound_id, waiting_requests, handed>>

\* Rpc::inject_connection_closed, with the substreams of the connection
RpcInConnectionClosed(peer) ==
  /\ RpcConnectionClosed(peer)
  /\ inbound' = dropped(inbound, ConnectionIds(connected'))
  /\ responding' = NoResponse
  /\ UNCHANGED <<next_inbound_id, waiting_requests, handed>>

RpcInInit ==
  /\ next_inbound_id = 1
  /\ waiting_requests = <<>>
  /\ inbound = <<>>
  /\ handed = {}
  /\ responding = NoResponse

\* ------------------------------------- P2P node: JSON-RPC front and server loop
VARIABLES
  connections,    \* listen: caller id -> is_ws, the JSON-RPC connections
  sync_requests,  \* server: request id -> (caller id, is_ws)
  outbox,         \* what each JSON-RPC caller has been sent
  used            \* the caller ids already taken by a connection

srvVars == <<connections, sync_requests, outbox, used>>

WsIds == {1, 2}        \* ids of WebSocket connections
HttpIds == {3}         \* ids of HTTP connections
CallerIds == WsIds \cup HttpIds

\* listen, the Out arm with every connection taken for a WebSocket
listen_out_all(conns, boxes, id, msg, is_ws) ==
  IF is_ws
    THEN [connections |-> conns,
          outbox |-> [c \in CallerIds |->
                        IF c \in DOMAIN conns /\ (id = 0 \/ c = id)
                          THEN Append(boxes[c], msg) ELSE boxes[c]]]
    ELSE [connections |-> [c \in DOMAIN conns \ {id} |-> conns[c]],
          outbox |-> [c \in CallerIds |->
                        IF c = id /\ c \in DOMAIN conns
                          THEN Append(boxes[c], msg) ELSE boxes[c]]]

\* listen, the Out arm: RpcMessage(id, params, is_ws) goes to every WebSocket
\* (id 0), to the connection id (WebSocket), or to the HTTP connection id,
\* which is removed
listen_out(conns, boxes, id, msg, is_ws) ==
  IF is_ws
    THEN [connections |-> conns,
          outbox |-> [c \in CallerIds |->
                        IF c \in DOMAIN conns /\ (IF id = 0 THEN conns[c] ELSE c = id)
                          THEN Append(boxes[c], msg) ELSE boxes[c]]]
    ELSE [connections |-> [c \in DOMAIN conns \ {id} |-> conns[c]],
          outbox |-> [c \in CallerIds |->
                        IF c = id /\ c \in DOMAIN conns
                          THEN Append(boxes[c], msg) ELSE boxes[c]]]

\* the Response arm with the entry of sync_requests read but left in the map
route_response_kept(sync, request_id) ==
  IF request_id \in DOMAIN sync
    THEN [sync_requests |-> sync,
          uid |-> sync[request_id].uid, is_ws |-> sync[request_id].is_ws]
    ELSE [sync_requests |-> sync, uid |-> 0, is_ws |-> TRUE]

\* server, the Response arm: sync_requests.remove(&request_id) gives the
\* caller, otherwise the message is for all WebSockets
route_response(sync, request_id) ==
  IF request_id \in DOMAIN sync
    THEN [sync_requests |-> [r \in DOMAIN sync \ {request_id} |-> sync[r]],
          uid |-> sync[request_id].uid, is_ws |-> sync[request_id].is_ws]
    ELSE [sync_requests |-> sync, uid |-> 0, is_ws |-> TRUE]

\* ws_connection: RpcInnerMessage::Open
SrvWsOpen(uid) ==
  /\ uid \in WsIds \ used
  /\ used' = used \cup {uid}
  /\ connections' = [c \in DOMAIN connections \cup {uid} |->
                       IF c = uid THEN TRUE ELSE connections[c]]
  /\ UNCHANGED <<sync_requests, outbox, rpcVars>>

\* ws_connection: RpcInnerMessage::Close
SrvWsClose(uid) ==
  /\ uid \in DOMAIN connections
  /\ connections[uid]
  /\ connections' = [c \in DOMAIN connections \ {uid} |-> connections[c]]
  /\ UNCHANGED <<sync_requests, outbox, used, rpcVars>>

\* the callers that can submit a JSON-RPC request: an open WebSocket, or a
\* new HTTP connection
CanSubmit(uid) ==
  \/ uid \in WsIds /\ uid \in DOMAIN connections
  \/ uid \in HttpIds \ used

\* listen, RpcInnerMessage::Request: an HTTP connection is recorded
submitted(conns, uid) ==
  IF uid \in HttpIds
    THEN [c \in DOMAIN conns \cup {uid} |-> IF c = uid THEN FALSE ELSE conns[c]]
    ELSE conns

\* a caller submits request-sync: Event::RequestSync
SrvRequestSync(uid, peer) ==
  /\ CanSubmit(uid)
  /\ RpcRequest(peer)
  /\ used' = used \cup {uid}
  /\ connections' = submitted(connections, uid)
  /\ sync_requests' = [r \in DOMAIN sync_requests \cup {next_request_id} |->
                         IF r = next_request_id
                           THEN [uid |-> uid, is_ws |-> uid \in WsIds]
                           ELSE sync_requests[r]]
  /\ UNCHANGED outbox

\* a caller submits request: Event::Request, answered with the request id
SrvRequest(uid, peer) ==
  /\ CanSubmit(uid)
  /\ RpcRequest(peer)
  /\ used' = used \cup {uid}
  /\ LET out == listen_out(submitted(connections, uid), outbox, uid,
                           [method |-> "request", request_id |-> next_request_id],
                           uid \in WsIds)
     IN /\ connections' = out.connections
        /\ outbox' = out.outbox
  /\ UNCHANGED sync_requests

\* the server loop takes the next event of the behaviour
SrvPoll ==
  /\ RpcPoll
  /\ LET event == Head(pending_events)
     IN IF event.type = "Response"
          THEN LET to == route_response(sync_requests, event.request_id)
                   out == listen_out(connections, outbox, to.uid,
                                     [method |-> "query", request_id |-> event.request_id],
                                     to.is_ws)
               IN /\ sync_requests' = to.sync_requests
                  /\ connections' = out.connections
                  /\ outbox' = out.outbox
          ELSE UNCHANGED <<connections, sync_requests, outbox>>
  /\ UNCHANGED used

SrvInit ==
  /\ connections = <<>>
  /\ sync_requests = <<>>
  /\ outbox = [c \in CallerIds |-> <<>>]
  /\ used = {}

\* ------------------------------------------------ P2P node: group behaviour
MaxGroupOps == 6   \* operations the callers and the network start
MaxBroadcasts == 1 \* of them, broadcasts
MaxLinks == 2      \* connections between two nodes

VARIABLES
  groups,     \* Group.groups of each node: group -> the peers known in it
  peers,      \* Group.peers of each node: the connected peers
  received,   \* Group.received of each node: the messages the filter holds
  events,     \* Group.events of each node: the actions poll returns
  links,      \* the connections between two nodes
  emitted,    \* the GroupEvent::Message events each node has yielded
  sequence,   \* the sequences taken by broadcasts
  ops,        \* operations started
  broadcasts, \* each broadcast with the members of its group connected to the
              \* source at that time
  last        \* the handler the last step ran, and its input

grpVars == <<groups, peers, received, events, links, emitted, sequence, ops,
             broadcasts, last>>

Nodes == {"n1", "n2", "n3"}
Groups == {"g1", "g2"}
Datas == {"x", "y"}
Pairs == {pair \in SUBSET Nodes : Cardinality(pair) = 2}

\* GroupAction: Join(port, is_request), Leave, Sync(others)
GroupAction(group, type, is_request, others) ==
  [group |-> group, type |-> type, is_request |-> is_request, others |-> others]

NoAction == GroupAction("none", "none", FALSE, {})

\* GroupMessage
GroupMessage(source, group, seq, data) ==
  [source |-> source, group |-> group, sequence |-> seq, data |-> data]

NoMessage == GroupMessage("none", "none", 0, "none")

\* NetworkBehaviourAction::NotifyHandler with one action
NotifyAction(peer_id, action) ==
  [kind |-> "NotifyHandler", peer |-> peer_id, action |-> action, message |-> NoMessage]

\* NetworkBehaviourAction::NotifyHandler with one message
NotifyMessage(peer_id, message) ==
  [kind |-> "NotifyHandler", peer |-> peer_id, action |-> NoAction, message |-> message]

\* NetworkBehaviourAction::Dial
Dial(peer_id) ==
  [kind |-> "Dial", peer |-> peer_id, action |-> NoAction, message |-> NoMessage]

\* NetworkBehaviourAction::GenerateEvent(GroupEvent::Message)
GenerateMessage(message) ==
  [kind |-> "GenerateEvent", peer |-> message.source, action |-> NoAction,
   message |-> message]

\* NetworkBehaviourAction::GenerateEvent(GroupEvent::Join / Leave)
GenerateMember(peer_id, group, type) ==
  [kind |-> "GenerateEvent", peer |-> peer_id,
   action |-> GroupAction(group, type, FALSE, {}), message |-> NoMessage]

RECURSIVE SeqOf(_, _, _)
\* one queue entry per element of S, in the order of iteration
SeqOf(S, which, arg) ==
  IF S = {} THEN <<>>
  ELSE LET x == CHOOSE y \in S : TRUE
           entry == CASE which = "JoinTo" -> NotifyAction(x, GroupAction(arg, "Join", TRUE, {}))
                      [] which = "JoinFor" -> NotifyAction(arg, GroupAction(x, "Join", TRUE, {}))
                      [] which = "Leave" -> NotifyAction(x, GroupAction(arg, "Leave", FALSE, {}))
                      [] which = "Dial" -> Dial(x)
                      [] which = "DialFor" -> Dial(arg)
       IN <<entry>> \o SeqOf(S \ {x}, which, arg)

RECURSIVE MessagesTo(_, _)
MessagesTo(S, message) ==
  IF S = {} THEN <<>>
  ELSE LET x == CHOOSE y \in S : TRUE
       IN <<NotifyMessage(x, message)>> \o MessagesTo(S \ {x}, message)

Without(gs, group) == [k \in DOMAIN gs \ {group} |-> gs[k]]

With(gs, group) == [k \in DOMAIN gs \cup {group} |-> IF k = group THEN {} ELSE gs[k]]

\* inject_connection_established with nothing sent to the peer
replayed_none(known, id, joined) == {}

\* inject_connection_established: the groups whose Join goes to the peer id
replayed(known, id, joined) == IF id \notin known THEN joined ELSE {}

\* inject_event, Sync, with no peer dialled
sync_dials_none(self, members, others) == {}

\* inject_event, Sync: the listed peers to dial
sync_dials(self, members, others) ==
  {peer_id \in others : peer_id \notin members /\ peer_id # self}

\* inject_event, Join with is_request: the list of the Sync sent back
sync_others(members, known) == {pid \in members : pid \in known}

\* CuckooFilter::test_and_add over the hash of the whole GroupMessage: TRUE
\* when the message was not in the filter
test_and_add(filter, message) == message \notin filter

\* inject_event of the node self for InnerMessage::Rx(entry) from peer_id;
\* gives the node's groups, events and received
inject_event(self, peer_id, entry, evs) ==
  LET gs == groups[self]
      same == [groups |-> gs, events |-> evs, received |-> received[self]]
      action == entry.action
      message == entry.message
  IN IF action # NoAction
       THEN IF action.group \notin DOMAIN gs THEN same
            ELSE LET members == gs[action.group]
                 IN CASE action.type = "Join" ->
                           LET reply == IF action.is_request
                                          THEN << NotifyAction(peer_id,
                                                    GroupAction(action.group, "Join", FALSE, {})),
                                                  NotifyAction(peer_id,
                                                    GroupAction(action.group, "Sync", FALSE,
                                                                sync_others(members, peers[self]))) >>
                                          ELSE <<>>
                               added == peer_id \notin members /\ peer_id \in peers[self]
                           IN [groups |-> IF added
                                            THEN [gs EXCEPT ![action.group] = @ \cup {peer_id}]
                                            ELSE gs,
                               events |-> evs \o reply \o
                                          (IF added
                                             THEN <<GenerateMember(peer_id, action.group, "Join")>>
                                             ELSE <<>>),
                               received |-> received[self]]
                      [] action.type = "Leave" ->
                           IF peer_id \in members
                             THEN [groups |-> [gs EXCEPT ![action.group] = @ \ {peer_id}],
                                   events |-> Append(evs, GenerateMember(peer_id, action.group, "Leave")),
                                   received |-> received[self]]
                             ELSE same
                      [] action.type = "Sync" ->
                           [groups |-> gs,
                            events |-> evs \o SeqOf(sync_dials(self, members, action.others),
                                                    "Dial", action.group),
                            received |-> received[self]]
       ELSE IF message.group \in DOMAIN gs /\ test_and_add(received[self], message)
              THEN [groups |-> gs,
                    events |-> Append(evs, GenerateMessage(message)),
                    received |-> received[self] \cup {message}]
              ELSE same

\* inject_connection_established of the node self for the peer id: the events
established_events(self, id) ==
  events[self] \o SeqOf(replayed(peers[self], id, DOMAIN groups[self]), "JoinFor", id)

\* inject_connection_closed with the group lists left as they are
closed_groups_kept(self, id) == groups[self]

\* inject_connection_closed that leaves the list of the group g1 as it is
closed_groups_but_one(self, id) ==
  [k \in DOMAIN groups[self] |->
     IF k = "g1" THEN groups[self][k] ELSE groups[self][k] \ {id}]

\* inject_connection_closed of the node self for the peer id
closed_groups(self, id) == [k \in DOMAIN groups[self] |-> groups[self][k] \ {id}]

closed_events(self, id, evs) ==
  evs \o SeqOf({k \in DOMAIN groups[self] : id \in groups[self][k]}, "DialFor", id)

\* what a peer may put on the wire: messages with one source and sequence
InjectedMessages == {GroupMessage("n3", "g1", 1, data) : data \in Datas}

\* the groups the callers of a node ask for
GroupRequests == {<<n, "g1">> : n \in Nodes} \cup {<<"n1", "g2">>}

\* the node whose peers send messages of their own
InjectedTo == "n1"

NoHandler == [op |-> "none", node |-> "none", peer |-> "none",
              action |-> NoAction, message |-> NoMessage]

Handler(op, node, peer_id, entry) ==
  [op |-> op, node |-> node, peer |-> peer_id,
   action |-> entry.action, message |-> entry.message]

\* a connection between a and b is established: inject_connection_established
\* at both ends
Establish(a, b, evA, evB) ==
  /\ links' = [links EXCEPT ![{a, b}] = @ + 1]
  /\ events' = [events EXCEPT ![a] = evA, ![b] = evB]
  /\ peers' = [peers EXCEPT ![a] = @ \cup {b}, ![b] = @ \cup {a}]

\* Group::join
GroupJoin(n, group) ==
  /\ ops < MaxGroupOps
  /\ group \notin DOMAIN groups[n]
  /\ events' = [events EXCEPT ![n] = @ \o SeqOf(peers[n], "JoinTo", group)]
  /\ groups' = [groups EXCEPT ![n] = With(@, group)]
  /\ ops' = ops + 1
  /\ last' = NoHandler
  /\ UNCHANGED <<peers, received, links, emitted, sequence, broadcasts>>

\* Group::leave
GroupLeave(n, group) ==
  /\ ops < MaxGroupOps
  /\ group \in DOMAIN groups[n]
  /\ events' = [events EXCEPT ![n] = @ \o SeqOf(groups[n][group], "Leave", group)]
  /\ groups' = [groups EXCEPT ![n] = Without(@, group)]
  /\ ops' = ops + 1
  /\ last' = NoHandler
  /\ UNCHANGED <<peers, received, links, emitted, sequence, broadcasts>>

\* Group::add_node_to_group: a Dial when the peer is not a member
GroupAddNode(n, group, peer_id) ==
  /\ ops < MaxGroupOps
  /\ n # peer_id
  /\ events' = [events EXCEPT ![n] =
                  IF group \in DOMAIN groups[n] /\ peer_id \notin groups[n][group]
                    THEN Append(@, Dial(peer_id)) ELSE @]
  /\ ops' = ops + 1
  /\ last' = NoHandler
  /\ UNCHANGED <<groups, peers, received, links, emitted, sequence, broadcasts>>

\* Group::remove_node_from_group
GroupDelNode(n, group, peer_id) ==
  /\ ops < MaxGroupOps
  /\ n # peer_id
  /\ groups' = [groups EXCEPT ![n] =
                  IF group \in DOMAIN @ THEN [@ EXCEPT ![group] = @ \ {peer_id}] ELSE @]
  /\ ops' = ops + 1
  /\ last' = NoHandler
  /\ UNCHANGED <<peers, received, events, links, emitted, sequence, broadcasts>>

\* Group::broadcast; the random sequence is a new one
GroupBroadcast(n, group, data) ==
  /\ ops < MaxGroupOps
  /\ sequence < MaxBroadcasts
  /\ group \in DOMAIN groups[n]
  /\ LET message == GroupMessage(n, group, sequence + 1, data)
     IN /\ received' = [received EXCEPT ![n] = @ \cup {message}]
        /\ events' = [events EXCEPT ![n] =
                        Append(@, GenerateMessage(message))
                          \o MessagesTo(groups[n][group], message)]
        /\ broadcasts' = broadcasts \cup
                           {[message |-> message,
                             members |-> {m \in Nodes :
                                            /\ group \in DOMAIN groups[m]
                                            /\ m = n \/ links[{n, m}] > 0}]}
        /\ last' = NoHandler
  /\ sequence' = sequence + 1
  /\ ops' = ops + 1
  /\ UNCHANGED <<groups, peers, links, emitted>>

\* the swarm connects two nodes (Event::Connect, or an incoming connection)
GroupConnect(a, b) ==
  /\ ops < MaxGroupOps
  /\ a # b
  /\ a = CHOOSE c \in {a, b} : TRUE
  /\ links[{a, b}] < MaxLinks
  /\ Establish(a, b, established_events(a, b), established_events(b, a))
  /\ ops' = ops + 1
  /\ last' = Handler("connection_established", a, b, NoHandler)
  /\ UNCHANGED <<groups, received, emitted, sequence, broadcasts>>

\* a connection between two nodes closes: inject_connection_closed at both ends
GroupClose(a, b) ==
  /\ ops < MaxGroupOps
  /\ a # b
  /\ a = CHOOSE c \in {a, b} : TRUE
  /\ links[{a, b}] > 0
  /\ links' = [links EXCEPT ![{a, b}] = @ - 1]
  /\ peers' = [peers EXCEPT ![a] = @ \ {b}, ![b] = @ \ {a}]
  /\ groups' = [groups EXCEPT ![a] = closed_groups(a, b), ![b] = closed_groups(b, a)]
  /\ events' = [events EXCEPT ![a] = closed_events(a, b, @), ![b] = closed_events(b, a, @)]
  /\ ops' = ops + 1
  /\ last' = NoHandler
  /\ UNCHANGED <<received, emitted, sequence, broadcasts>>

\* a connected peer sends a GroupMessage of its choice: inject_event
GroupRx(n, peer_id, message) ==
  /\ ops < MaxGroupOps
  /\ peer_id \in peers[n]
  /\ LET entry == NotifyMessage(n, message)
         after == inject_event(n, peer_id, entry, events[n])
     IN /\ events' = [events EXCEPT ![n] = after.events]
        /\ received' = [received EXCEPT ![n] = after.received]
        /\ last' = Handler("inject_event", n, peer_id, entry)
  /\ ops' = ops + 1
  /\ UNCHANGED <<groups, peers, links, emitted, sequence, broadcasts>>

\* poll: GenerateEvent is yielded to the server loop
GroupPollGenerate(n) ==
  /\ events[n] # <<>>
  /\ Head(events[n]).kind = "GenerateEvent"
  /\ events' = [events EXCEPT ![n] = Tail(@)]
  /\ emitted' = IF Head(events[n]).message # NoMessage
                  THEN [emitted EXCEPT ![n] = Append(@, Head(events[n]).message)]
                  ELSE emitted
  /\ last' = NoHandler
  /\ UNCHANGED <<groups, peers, received, links, sequence, ops, broadcasts>>

\* poll: NotifyHandler reaches the handler of a connection to the peer, whose
\* behaviour gets inject_event; without a connection it is dropped
GroupPollNotify(n) ==
  /\ events[n] # <<>>
  /\ Head(events[n]).kind = "NotifyHandler"
  /\ LET entry == Head(events[n])
         to == entry.peer
     IN IF links[{n, to}] > 0
          THEN LET after == inject_event(to, n, entry, events[to])
               IN /\ events' = [events EXCEPT ![n] = Tail(@), ![to] = after.events]
                  /\ groups' = [groups EXCEPT ![to] = after.groups]
                  /\ received' = [received EXCEPT ![to] = after.received]
                  /\ last' = Handler("inject_event", to, n, entry)
          ELSE /\ events' = [events EXCEPT ![n] = Tail(@)]
               /\ last' = NoHandler
               /\ UNCHANGED <<groups, received>>
  /\ UNCHANGED <<peers, links, emitted, sequence, ops, broadcasts>>

\* poll: Dial with PeerCondition::Disconnected; the dial connects or fails
GroupPollDial(n) ==
  /\ events[n] # <<>>
  /\ Head(events[n]).kind = "Dial"
  /\ LET to == Head(events[n]).peer
     IN \/ /\ links[{n, to}] = 0
           /\ Establish(n, to,
                        Tail(events[n]) \o
                          SeqOf(replayed(peers[n], to, DOMAIN groups[n]), "JoinFor", to),
                        established_events(to, n))
           /\ last' = Handler("connection_established", n, to, NoHandler)
        \/ /\ events' = [events EXCEPT ![n] = Tail(@)]
           /\ last' = NoHandler
           /\ UNCHANGED <<peers, links>>
  /\ UNCHANGED <<groups, received, emitted, sequence, ops, broadcasts>>

GroupInit ==
  /\ groups = [n \in Nodes |-> <<>>]
  /\ peers = [n \in Nodes |-> {}]
  /\ received = [n \in Nodes |-> {}]
  /\ events = [n \in Nodes |-> <<>>]
  /\ links = [pair \in Pairs |-> 0]
  /\ emitted = [n \in Nodes |-> <<>>]
  /\ sequence = 0
  /\ ops = 0
  /\ broadcasts = {}
  /\ last = NoHandler

\* ------------------------------------------- OpenState / QueryState in use
\* A caller of the state objects: it generates a state as the consumer, then
\* signs it for either role or sends it through to_json and from_json.
VARIABLES
  codec        \* the state object held, the one before the last call, and the call

codecVars == <<codec>>

NoCodec ==
  [kind |-> "none", op |-> "none", n |-> 0, key |-> "none", is_consumer |-> FALSE,
   state |-> <<>>, before |-> <<>>]

\* OpenState::consumer_generate / QueryState::consumer_generate
CodecGenerate ==
  /\ codec.kind = "none"
  /\ \E channel_id \in {1, 255, 4096}, k \in UserKeys :
       \/ \E amount \in {0, 10}, expiration \in Expirations :
            LET state == OpenState_consumer_generate(channel_id, IndexerAddr, AddressOf(k),
                           amount, expiration, <<>>, "d1", k)
            IN codec' = [NoCodec EXCEPT !.kind = "open", !.op = "generate", !.key = k,
                                        !.is_consumer = TRUE, !.state = state, !.before = state]
       \/ \E count \in {0, 12}, is_final \in BOOLEAN :
            LET state == QueryState_consumer_generate(channel_id, IndexerAddr, AddressOf(k),
                           count, PRICE, is_final, k)
            IN codec' = [NoCodec EXCEPT !.kind = "query", !.op = "generate", !.key = k,
                                        !.is_consumer = TRUE, !.state = state, !.before = state]

\* state.sign(key, is_consumer)
CodecSign ==
  /\ codec.kind # "none"
  /\ codec.n < MaxCodecOps
  /\ \E k \in UserKeys \cup {ControllerKey}, is_consumer \in BOOLEAN :
       codec' = [codec EXCEPT !.op = "sign", !.n = @ + 1, !.key = k,
                              !.is_consumer = is_consumer, !.before = codec.state,
                              !.state = IF codec.kind = "open"
                                          THEN OpenState_sign(codec.state, k, is_consumer)
                                          ELSE QueryState_sign(codec.state, k, is_consumer)]

\* from_json(&state.to_json())
CodecJson ==
  /\ codec.kind # "none"
  /\ codec.n < MaxCodecOps
  /\ codec' = [codec EXCEPT !.op = "json", !.n = @ + 1, !.before = codec.state,
                            !.state = IF codec.kind = "open"
                                        THEN OpenState_from_json(OpenState_to_json(codec.state))
                                        ELSE QueryState_from_json(QueryState_to_json(codec.state))]

CodecInit == codec = NoCodec

\* --------------------------------------------------------- specifications
vars == <<chanVars, cliVars, idxVars, rpcVars, srvVars, grpVars, codecVars, inbVars>>

Init ==
  /\ ChanInit /\ CliInit /\ IdxInit /\ RpcInit /\ SrvInit /\ GroupInit /\ CodecInit
  /\ RpcInInit

\* the RPC behaviour of a node whose peers send it requests
RpcInNext ==
  \/ \E peer \in Peers : RpcInConnectionEstablished(peer) /\ UNCHANGED <<chanVars, cliVars, idxVars, srvVars, grpVars, codecVars>>
  \/ \E peer \in Peers : RpcInConnectionClosed(peer) /\ UNCHANGED <<chanVars, cliVars, idxVars, srvVars, grpVars, codecVars>>
  \/ \E peer \in Peers : RpcInboundRequest(peer) /\ UNCHANGED <<chanVars, cliVars, idxVars, srvVars, grpVars, codecVars>>
  \/ \E peer \in Peers : RpcInboundEnd(peer) /\ UNCHANGED <<chanVars, cliVars, idxVars, srvVars, grpVars, codecVars>>
  \/ \E uid \in 1..(MaxInbound + 1) : RpcResponseMethod(uid) /\ UNCHANGED <<chanVars, cliVars, idxVars, srvVars, grpVars, codecVars>>
  \/ RpcInPoll /\ UNCHANGED <<chanVars, cliVars, idxVars, srvVars, grpVars, codecVars>>

SpecRpcIn == Init /\ [][RpcInNext]_vars

\* the state objects under generate, sign and the JSON conversions
CodecNext ==
  \/ CodecGenerate /\ UNCHANGED <<chanVars, cliVars, idxVars, rpcVars, srvVars, grpVars, inbVars>>
  \/ CodecSign /\ UNCHANGED <<chanVars, cliVars, idxVars, rpcVars, srvVars, grpVars, inbVars>>
  \/ CodecJson /\ UNCHANGED <<chanVars, cliVars, idxVars, rpcVars, srvVars, grpVars, inbVars>>

SpecCodec == Init /\ [][CodecNext]_vars

\* the consumer proxy with the indexer behind it
ChanNext ==
  \/ \E t \in TaskIds : OpenPaygStart(t) /\ UNCHANGED <<cliVars, idxVars, rpcVars, srvVars, grpVars, codecVars, inbVars>>
  \/ \E t \in TaskIds : OpenPaygFinish(t) /\ UNCHANGED <<cliVars, idxVars, rpcVars, srvVars, grpVars, codecVars, inbVars>>
  \/ \E t \in TaskIds : QueryStart(t) /\ UNCHANGED <<cliVars, idxVars, rpcVars, srvVars, grpVars, codecVars, inbVars>>
  \/ \E t \in TaskIds : QueryFinish(t) /\ UNCHANGED <<cliVars, idxVars, rpcVars, srvVars, grpVars, codecVars, inbVars>>
  \/ RenewLookup /\ UNCHANGED <<cliVars, idxVars, rpcVars, srvVars, grpVars, codecVars, inbVars>>
  \/ RenewUpdate /\ UNCHANGED <<cliVars, idxVars, rpcVars, srvVars, grpVars, codecVars, inbVars>>

SpecChan == Init /\ [][ChanNext]_vars

\* no invocation of a handler is waiting for the indexer
Serial == \A t \in AllTaskIds : tasks[t].pc # "await_indexer"

\* the consumer proxy given one request at a time; nothing in the proxy calls
\* renew
ChanSerialNext ==
  \/ \E t \in AllTaskIds :
       Serial /\ OpenPaygStart(t) /\ UNCHANGED <<cliVars, idxVars, rpcVars, srvVars, grpVars, codecVars, inbVars>>
  \/ \E t \in AllTaskIds :
       OpenPaygFinish(t) /\ UNCHANGED <<cliVars, idxVars, rpcVars, srvVars, grpVars, codecVars, inbVars>>
  \/ \E t \in AllTaskIds :
       Serial /\ QueryStart(t) /\ UNCHANGED <<cliVars, idxVars, rpcVars, srvVars, grpVars, codecVars, inbVars>>
  \/ \E t \in AllTaskIds :
       QueryFinish(t) /\ UNCHANGED <<cliVars, idxVars, rpcVars, srvVars, grpVars, codecVars, inbVars>>

SpecChanSerial == Init /\ [][ChanSerialNext]_vars

\* the example consumer with the indexer behind it
CliNext ==
  \/ CliOpen /\ UNCHANGED <<chanVars, idxVars, rpcVars, srvVars, grpVars, codecVars, inbVars>>
  \/ CliSetChannel /\ UNCHANGED <<chanVars, idxVars, rpcVars, srvVars, grpVars, codecVars, inbVars>>
  \/ CliQuery /\ UNCHANGED <<chanVars, idxVars, rpcVars, srvVars, grpVars, codecVars, inbVars>>
  \/ CliCheckpoint /\ UNCHANGED <<chanVars, idxVars, rpcVars, srvVars, grpVars, codecVars, inbVars>>

SpecCli == Init /\ [][CliNext]_vars

\* the indexer serving the requests submitted to it directly
IdxNext ==
  \/ IdxQueryState /\ UNCHANGED <<chanVars, cliVars, rpcVars, srvVars, grpVars, codecVars, inbVars>>
  \/ IdxP2pQuery /\ UNCHANGED <<chanVars, cliVars, rpcVars, srvVars, grpVars, codecVars, inbVars>>
  \/ IdxAuthorize /\ UNCHANGED <<chanVars, cliVars, rpcVars, srvVars, grpVars, codecVars, inbVars>>
  \/ IdxOpenState /\ UNCHANGED <<chanVars, cliVars, rpcVars, srvVars, grpVars, codecVars, inbVars>>

SpecIdx == Init /\ [][IdxNext]_vars

\* the outbound side of the RPC behaviour
RpcNext ==
  \/ \E peer \in Peers : RpcRequest(peer) /\ UNCHANGED <<chanVars, cliVars, idxVars, srvVars, grpVars, codecVars, inbVars>>
  \/ \E peer \in Peers : RpcConnectionEstablished(peer) /\ UNCHANGED <<chanVars, cliVars, idxVars, srvVars, grpVars, codecVars, inbVars>>
  \/ \E peer \in Peers : RpcConnectionClosed(peer) /\ UNCHANGED <<chanVars, cliVars, idxVars, srvVars, grpVars, codecVars, inbVars>>
  \/ \E peer \in Peers : RpcDialFailure(peer) /\ UNCHANGED <<chanVars, cliVars, idxVars, srvVars, grpVars, codecVars, inbVars>>
  \/ \E peer \in Peers : RpcOutboundEnd(peer) /\ UNCHANGED <<chanVars, cliVars, idxVars, srvVars, grpVars, codecVars, inbVars>>
  \/ RpcPoll /\ UNCHANGED <<chanVars, cliVars, idxVars, srvVars, grpVars, codecVars, inbVars>>

SpecRpc == Init /\ [][RpcNext]_vars

\* the P2P node: JSON-RPC callers, the server loop and the RPC behaviour
SrvNext ==
  \/ \E uid \in CallerIds : SrvWsOpen(uid) /\ UNCHANGED <<chanVars, cliVars, idxVars, grpVars, codecVars, inbVars>>
  \/ \E uid \in CallerIds : SrvWsClose(uid) /\ UNCHANGED <<chanVars, cliVars, idxVars, grpVars, codecVars, inbVars>>
  \/ \E uid \in CallerIds, peer \in Peers :
       SrvRequestSync(uid, peer) /\ UNCHANGED <<chanVars, cliVars, idxVars, grpVars, codecVars, inbVars>>
  \/ \E uid \in CallerIds, peer \in Peers :
       SrvRequest(uid, peer) /\ UNCHANGED <<chanVars, cliVars, idxVars, grpVars, codecVars, inbVars>>
  \/ SrvPoll /\ UNCHANGED <<chanVars, cliVars, idxVars, grpVars, codecVars, inbVars>>
  \/ \E peer \in Peers :
       RpcConnectionEstablished(peer) /\ UNCHANGED <<chanVars, cliVars, idxVars, srvVars, grpVars, codecVars, inbVars>>
  \/ \E peer \in Peers :
       RpcConnectionClosed(peer) /\ UNCHANGED <<chanVars, cliVars, idxVars, srvVars, grpVars, codecVars, inbVars>>
  \/ \E peer \in Peers :
       RpcDialFailure(peer) /\ UNCHANGED <<chanVars, cliVars, idxVars, srvVars, grpVars, codecVars, inbVars>>
  \/ \E peer \in Peers :
       RpcOutboundEnd(peer) /\ UNCHANGED <<chanVars, cliVars, idxVars, srvVars, grpVars, codecVars, inbVars>>

SpecSrv == Init /\ [][SrvNext]_vars

\* the group behaviours of the nodes and the connections between them
GroupNext ==
  \/ \E request \in GroupRequests :
       GroupJoin(request[1], request[2]) /\ UNCHANGED <<chanVars, cliVars, idxVars, rpcVars, srvVars, codecVars, inbVars>>
  \/ \E request \in GroupRequests :
       GroupLeave(request[1], request[2]) /\ UNCHANGED <<chanVars, cliVars, idxVars, rpcVars, srvVars, codecVars, inbVars>>
  \/ \E request \in GroupRequests, data \in {"x"} :
       GroupBroadcast(request[1], request[2], data) /\ UNCHANGED <<chanVars, cliVars, idxVars, rpcVars, srvVars, codecVars, inbVars>>
  \/ \E a \in Nodes, b \in Nodes :
       GroupConnect(a, b) /\ UNCHANGED <<chanVars, cliVars, idxVars, rpcVars, srvVars, codecVars, inbVars>>
  \/ \E a \in Nodes, b \in Nodes :
       GroupClose(a, b) /\ UNCHANGED <<chanVars, cliVars, idxVars, rpcVars, srvVars, codecVars, inbVars>>
  \/ \E peer_id \in Nodes, message \in InjectedMessages :
       GroupRx(InjectedTo, peer_id, message) /\ UNCHANGED <<chanVars, cliVars, idxVars, rpcVars, srvVars, codecVars, inbVars>>
  \/ \E n \in Nodes :
       GroupPollGenerate(n) /\ UNCHANGED <<chanVars, cliVars, idxVars, rpcVars, srvVars, codecVars, inbVars>>
  \/ \E n \in Nodes :
       GroupPollNotify(n) /\ UNCHANGED <<chanVars, cliVars, idxVars, rpcVars, srvVars, codecVars, inbVars>>
  \/ \E n \in Nodes :
       GroupPollDial(n) /\ UNCHANGED <<chanVars, cliVars, idxVars, rpcVars, srvVars, codecVars, inbVars>>

SpecGroup == Init /\ [][GroupNext]_vars

\* the group behaviour under connections and the membership calls of the
\* control plane, with no broadcast
GroupNodesNext ==
  \/ \E request \in GroupRequests :
       GroupJoin(request[1], request[2]) /\ UNCHANGED <<chanVars, cliVars, idxVars, rpcVars, srvVars, codecVars, inbVars>>
  \/ \E request \in GroupRequests :
       GroupLeave(request[1], request[2]) /\ UNCHANGED <<chanVars, cliVars, idxVars, rpcVars, srvVars, codecVars, inbVars>>
  \/ \E request \in GroupRequests, peer_id \in Nodes :
       GroupAddNode(request[1], request[2], peer_id) /\ UNCHANGED <<chanVars, cliVars, idxVars, rpcVars, srvVars, codecVars, inbVars>>
  \/ \E request \in GroupRequests, peer_id \in Nodes :
       GroupDelNode(request[1], request[2], peer_id) /\ UNCHANGED <<chanVars, cliVars, idxVars, rpcVars, srvVars, codecVars, inbVars>>
  \/ \E a \in Nodes, b \in Nodes :
       GroupConnect(a, b) /\ UNCHANGED <<chanVars, cliVars, idxVars, rpcVars, srvVars, codecVars, inbVars>>
  \/ \E a \in Nodes, b \in Nodes :
       GroupClose(a, b) /\ UNCHANGED <<chanVars, cliVars, idxVars, rpcVars, srvVars, codecVars, inbVars>>
  \/ \E n \in Nodes :
       GroupPollGenerate(n) /\ UNCHANGED <<chanVars, cliVars, idxVars, rpcVars, srvVars, codecVars, inbVars>>
  \/ \E n \in Nodes :
       GroupPollNotify(n) /\ UNCHANGED <<chanVars, cliVars, idxVars, rpcVars, srvVars, codecVars, inbVars>>
  \/ \E n \in Nodes :
       GroupPollDial(n) /\ UNCHANGED <<chanVars, cliVars, idxVars, rpcVars, srvVars, codecVars, inbVars>>

SpecGroupNodes == Init /\ [][GroupNodesNext]_vars

\* the swarm polls the behaviour of a node
GroupPolled(n) ==
  /\ GroupPollGenerate(n) \/ GroupPollNotify(n) \/ GroupPollDial(n)
  /\ UNCHANGED <<chanVars, cliVars, idxVars, rpcVars, srvVars, codecVars, inbVars>>

\* the swarm keeps polling the behaviours: no queue entry waits for ever
SpecGroupFair == SpecGroup /\ \A n \in Nodes : WF_vars(GroupPolled(n))

\* the dial the behaviour asked for ends: a connection or a dial failure
DialResolved(peer) ==
  /\ pending_outbound_requests[peer] # <<>>
  /\ RpcDialFailure(peer) \/ RpcConnectionEstablished(peer)
  /\ UNCHANGED <<chanVars, cliVars, idxVars, srvVars, grpVars, codecVars, inbVars>>

\* the substream of a request sent on a connection ends: by its response, by
\* the substream timeout or by a failed negotiation
SubstreamEnds(peer) == RpcOutboundEnd(peer) /\ UNCHANGED <<chanVars, cliVars, idxVars, srvVars, grpVars, codecVars, inbVars>>

\* the RPC behaviour under a swarm that resolves every dial and with the
\* substream timeout running
SpecRpcFair ==
  /\ SpecRpc
  /\ \A peer \in Peers : WF_vars(DialResolved(peer)) /\ WF_vars(SubstreamEnds(peer))

\* ------------------------------------------------------------- properties
\* C1: no operation of the consumer proxy leaves the stored current_count of
\* a channel smaller than it was before the operation.
C1_CurrentCountNonDecreasing ==
  [][\A k \in DOMAIN CHANNELS :
       (k \in DOMAIN CHANNELS' /\ CHANNELS'[k].id = CHANNELS[k].id)
         => CHANNELS'[k].current_count >= CHANNELS[k].current_count]_vars

\* the invocations of query_handler that hold a QueryState and wait for the indexer
InFlightQueries == {t \in TaskIds : tasks[t].pc = "await_indexer" /\ tasks[t].kind = "query"}

\* C2: two query calls in flight on the same channel have read different
\* values of current_count and carry QueryStates with different counts.
C2_ConcurrentQueriesDistinctCounts ==
  \A t \in InFlightQueries, u \in InFlightQueries :
    (t # u /\ tasks[t].dep = tasks[u].dep /\ tasks[t].chan.id = tasks[u].chan.id)
      => /\ tasks[t].chan.current_count # tasks[u].chan.current_count
         /\ QueryState_from_json(tasks[t].state).count
              # QueryState_from_json(tasks[u].state).count

\* C3: budget safety: a stored channel whose status is Open has
\* current_count * last_price <= amount.
C3_BudgetSafety ==
  \A k \in DOMAIN CHANNELS :
    CHANNELS[k].status = "Open"
      => CHANNELS[k].current_count * CHANNELS[k].last_price <= CHANNELS[k].balance

\* C4: every QueryState emitted by a query has is_final equal to
\* count * price >= amount, for the advanced count it carries.
C4_IsFinalComputed ==
  \A t \in InFlightQueries :
    LET state == QueryState_from_json(tasks[t].state)
    IN state.is_final <=> (state.count * state.price >= tasks[t].chan.balance)

\* C5: once a QueryState with is_final = true has been emitted for a channel,
\* no further QueryState is emitted for it: a final state is the last one sent.
C5_NothingEmittedAfterFinal ==
  \A c \in 1..Len(cli_sent) :
    \A i \in 1..Len(cli_sent[c]) :
      cli_sent[c][i].is_final => i = Len(cli_sent[c])

\* C6: onchain_count <= current_count for every stored channel.
C6_OnchainAtMostCurrent ==
  \A k \in DOMAIN CHANNELS : CHANNELS[k].onchain_count <= CHANNELS[k].current_count

\* a channel whose current_count has moved away from zero
C6_Witness ==
  \E k \in DOMAIN CHANNELS :
    CHANNELS[k].current_count > 0 /\ CHANNELS[k].onchain_count <= CHANNELS[k].current_count

\* the stored channel is the one the only accepted open installed, no query of
\* the deployment is in flight and no returned state waits for renew
Quiescent(k) ==
  /\ Cardinality({t \in TaskIds : tasks[t].kind = "open" /\ tasks[t].installed}) = 1
  /\ \A t \in InFlightQueries : tasks[t].dep # k
  /\ returned = {}
  /\ renewing = {}

\* C7: each successful query advances the stored current_count by exactly 1:
\* once the n successful queries on a fresh channel are over, current_count = n.
C7_QueryAdvancesByOne ==
  \A k \in DOMAIN CHANNELS : Quiescent(k) => CHANNELS[k].current_count = served[k]

\* C8: an open request is accepted by /open only if its consumer signature
\* recovers to the consumer of the state; otherwise nothing is installed.
C8_OpenOnlyForRecoveredConsumer ==
  \A s \in idx_opens : OpenState_recover(s)[2] = s.consumer

\* C9: the indexer countersigns a QueryState and serves its query only if the
\* consumer signature recovers to the consumer of the state.
C9_ServeOnlyForRecoveredConsumer ==
  \A s \in idx_replies : QueryState_recover(s)[2] = s.consumer

\* the ids of the outbound requests queued for dialing, per peer
QueuedIds(p) == {pending_outbound_requests[p][i] : i \in 1..Len(pending_outbound_requests[p])}

\* the places a pending outbound request is held: the queue of a peer, or a
\* connection of a peer
PendingPlaces ==
  {<<p, 0>> : p \in Peers} \cup {<<p, i>> : p \in Peers, i \in 1..MaxPerPeer}

PendingAt(place) ==
  IF place[2] = 0 THEN QueuedIds(place[1])
  ELSE IF place[2] <= Len(connected[place[1]])
    THEN connected[place[1]][place[2]].pending_inbound_responses
  ELSE {}

\* C10: no two pending outbound requests, queued for dialing or awaiting a
\* response on any connection to any peer, share a request id.
C10_RequestIdUnique ==
  /\ \A p \in Peers :
       Cardinality(QueuedIds(p)) = Len(pending_outbound_requests[p])
  /\ \A a \in PendingPlaces, b \in PendingPlaces :
       a # b => PendingAt(a) \cap PendingAt(b) = {}

\* one request queued for dialing while another awaits its response
C10_Witness ==
  \E p \in Peers, q \in Peers, i \in 1..MaxPerPeer :
    /\ pending_outbound_requests[p] # <<>>
    /\ PendingAt(<<q, i>>) # {}

\* C11: when the substream timeout of an outbound request fires, the request
\* id is removed from the pending requests of every connection and the caller
\* is handed OutboundFailure::Timeout for that request id.
C11_TimeoutSurfaces ==
  [][handler_event'.kind = "Timeout" =>
       /\ \A place \in PendingPlaces : handler_event'.request_id \notin PendingAt(place)'
       /\ pending_events' # <<>>
       /\ pending_events'[Len(pending_events')] =
            [type |-> "OutboundFailure", peer |-> handler_event'.peer,
             request_id |-> handler_event'.request_id, error |-> "Timeout"]]_vars

\* the timeout of a request has just fired and its failure is the next event
\* the caller gets from poll
C11_Witness ==
  /\ handler_event.kind = "Timeout"
  /\ pending_events # <<>>
  /\ Head(pending_events).type = "OutboundFailure"
  /\ Head(pending_events).error = "Timeout"
  /\ Head(pending_events).request_id = handler_event.request_id

\* the request ids the node hands out
RequestIds == 1..MaxRequests

\* the request is queued for dialing or awaits its response on a connection
Pending(request_id) == \E place \in PendingPlaces : request_id \in PendingAt(place)

\* the response of the request, or its failure with one of the errors, is
\* among the events for the caller
Surfaced(request_id, errors) ==
  \E i \in 1..Len(pending_events) :
    /\ pending_events[i].request_id = request_id
    /\ \/ pending_events[i].type = "Response"
       \/ pending_events[i].type = "OutboundFailure" /\ pending_events[i].error \in errors

\* C12: no outbound request stays pending forever: it surfaces to the caller
\* as its response, or as OutboundFailure ConnectionClosed or Timeout.
C12_AbandonedSurfaces ==
  \A request_id \in RequestIds :
    Pending(request_id) ~> Surfaced(request_id, {"ConnectionClosed", "Timeout"})

\* C12 with the failures the code reports: no outbound request stays pending
\* forever, it surfaces as its response or as OutboundFailure ConnectionClosed,
\* Timeout, DialFailure or UnsupportedProtocols.
C12_AbandonedSurfacesAnyFailure ==
  \A request_id \in RequestIds :
    Pending(request_id)
      ~> Surfaced(request_id, {"ConnectionClosed", "Timeout", "DialFailure",
                               "UnsupportedProtocols"})

\* a request that was never answered has surfaced as a dial failure
C12_Witness ==
  \E request_id \in RequestIds :
    /\ ~Pending(request_id)
    /\ Surfaced(request_id, {"DialFailure"})
    /\ ~Surfaced(request_id, {"ConnectionClosed", "Timeout"})

\* the server loop takes an event of the given types off the queue
Polled(types) ==
  /\ pending_events # <<>>
  /\ pending_events' = Tail(pending_events)
  /\ Head(pending_events).type \in types

QueryMessage(request_id) == [method |-> "query", request_id |-> request_id]

\* C13: a response for a request id recorded in sync_requests goes to the
\* stored caller and to nobody else (to nobody when that caller has gone), its
\* entry leaves the map, and no caller is ever sent the response of one
\* request id twice.
C13_SyncResponseRouted ==
  [][(Polled({"Response"}) /\ Head(pending_events).request_id \in DOMAIN sync_requests) =>
       LET request_id == Head(pending_events).request_id
           caller == sync_requests[request_id]
       IN /\ request_id \notin DOMAIN sync_requests'
          /\ \A c \in CallerIds :
               outbox'[c] = IF c = caller.uid /\ c \in DOMAIN connections
                              THEN Append(outbox[c], QueryMessage(request_id))
                              ELSE outbox[c]
          /\ \A c \in CallerIds :
               Cardinality({i \in DOMAIN outbox'[c] :
                              outbox'[c][i] = QueryMessage(request_id)}) <= 1]_vars

\* a WebSocket caller and an HTTP caller have both had the response of their
\* own synchronous request, and only that
C13_Witness ==
  /\ \E ws \in WsIds : \E r \in RequestIds :
       /\ outbox[ws] = <<QueryMessage(r)>>
       /\ \E h \in HttpIds : \E r2 \in RequestIds \ {r} : outbox[h] = <<QueryMessage(r2)>>
  /\ sync_requests = <<>>

\* C14: when the request of a synchronous caller fails in the transport, that
\* caller is sent a JSON-RPC message for it.
C14_SyncFailureDelivered ==
  [][(Polled({"OutboundFailure"}) /\ Head(pending_events).request_id \in DOMAIN sync_requests) =>
       LET caller == sync_requests[Head(pending_events).request_id]
       IN caller.uid \in DOMAIN connections =>
            Len(outbox'[caller.uid]) = Len(outbox[caller.uid]) + 1]_vars

\* C15: a response whose request id is not in sync_requests is sent to every
\* connected WebSocket and to no HTTP caller.
C15_UnsolicitedBroadcast ==
  [][(Polled({"Response"}) /\ Head(pending_events).request_id \notin DOMAIN sync_requests) =>
       LET request_id == Head(pending_events).request_id
       IN /\ \A c \in CallerIds :
               outbox'[c] = IF c \in WsIds /\ c \in DOMAIN connections
                              THEN Append(outbox[c], QueryMessage(request_id))
                              ELSE outbox[c]
          /\ connections' = connections
          /\ sync_requests' = sync_requests]_vars

\* the response of request 2 was broadcast to a WebSocket while an HTTP caller
\* was waiting for the response of its request 1
C15_Witness ==
  /\ \E h \in HttpIds :
       /\ h \in DOMAIN connections
       /\ 1 \in DOMAIN sync_requests
       /\ sync_requests[1].uid = h
       /\ outbox[h] = <<>>
  /\ \E ws \in WsIds :
       /\ outbox[ws] # <<>>
       /\ outbox[ws][Len(outbox[ws])] = QueryMessage(2)

\* the entries a step has added at the end of the queue of a node; the node
\* whose Dial made the connection has given up the head of its queue
Added(n) ==
  LET polled == ops' = ops /\ last'.op = "connection_established" /\ n = last'.node
      base == IF polled THEN Len(events[n]) - 1 ELSE Len(events[n])
  IN SubSeq(events'[n], base + 1, Len(events'[n]))

\* the step makes the node last'.node run inject_event for an action of the
\* given type from the peer last'.peer
Injected(type) == last'.op = "inject_event" /\ last'.action.type = type

\* C16: no node yields two received-message events with the same source and
\* sequence.
C16_DeliveredOnce ==
  \A n \in Nodes : \A i \in DOMAIN emitted[n], j \in DOMAIN emitted[n] :
    (emitted[n][i].source = emitted[n][j].source
       /\ emitted[n][i].sequence = emitted[n][j].sequence) => i = j

\* C17: a node that has joined a group and gets Join(port, TRUE) for it from a
\* peer queues for that peer its own Join(port, FALSE) and then a Sync that
\* lists the members it knows other than that peer.
C17_JoinRequestAnswered ==
  [][(Injected("Join") /\ last'.action.is_request
        /\ last'.action.group \in DOMAIN groups[last'.node]) =>
       LET n == last'.node
           group == last'.action.group
           added == Added(n)
       IN /\ Len(added) >= 2
          /\ added[1] = NotifyAction(last'.peer, GroupAction(group, "Join", FALSE, {}))
          /\ added[2] = NotifyAction(last'.peer,
                                     GroupAction(group, "Sync", FALSE,
                                                 groups[n][group] \ {last'.peer}))]_vars

\* the peers of a Sync list that the node is not connected to
Unknown(n, others) == {peer_id \in others : peer_id \notin peers[n] /\ peer_id # n}

\* C18 as stated: a node that gets Sync(list) queues a Dial for every listed
\* peer it is not connected to.
C18_SyncDialsUnknown ==
  [][Injected("Sync") =>
       \A peer_id \in Unknown(last'.node, last'.action.others) :
         \E i \in DOMAIN Added(last'.node) : Added(last'.node)[i] = Dial(peer_id)]_vars

\* C18: a node that gets Sync(list) for a group it has joined queues a Dial
\* for every listed peer it is not connected to.
C18_SyncDialsUnknownInJoinedGroup ==
  [][(Injected("Sync") /\ last'.action.group \in DOMAIN groups[last'.node]) =>
       \A peer_id \in Unknown(last'.node, last'.action.others) :
         \E i \in DOMAIN Added(last'.node) : Added(last'.node)[i] = Dial(peer_id)]_vars

\* a node has got a Sync, for a group it has joined, that lists a peer it is
\* not connected to, and the Dial for that peer is the last entry of its queue
C18_Witness ==
  /\ last.op = "inject_event"
  /\ last.action.type = "Sync"
  /\ last.action.group \in DOMAIN groups[last.node]
  /\ \E peer_id \in Unknown(last.node, last.action.others) :
       /\ events[last.node] # <<>>
       /\ events[last.node][Len(events[last.node])] = Dial(peer_id)

Yielded(n, message) == \E i \in DOMAIN emitted[n] : emitted[n][i] = message

\* C19, for the message the node n1 broadcasts in the group g1 and the node
\* n2: if n2 is a member of the group and has a connection to n1 when the
\* message is broadcast, n2 eventually yields the message.
C19_BroadcastReachesMembers ==
  LET message == GroupMessage("n1", "g1", 1, "x")
  IN (\E b \in broadcasts : b.message = message /\ "n2" \in b.members)
       ~> Yielded("n2", message)

\* the Join(port, TRUE) entries, one for each group the node has joined, are
\* what the step added to the queue of the node x for the peer y
Replayed(x, y) ==
  /\ Len(Added(x)) = Cardinality(DOMAIN groups[x])
  /\ \A group \in DOMAIN groups[x] :
       \E i \in DOMAIN Added(x) :
         Added(x)[i] = NotifyAction(y, GroupAction(group, "Join", TRUE, {}))

\* C20 as stated: whenever a connection between two nodes is established, each
\* queues for the other a Join for every group it has joined.
C20_JoinsReplayed ==
  [][last'.op = "connection_established" =>
       /\ Replayed(last'.node, last'.peer)
       /\ Replayed(last'.peer, last'.node)]_vars

\* C20: whenever a connection is established to a peer that the node does not
\* hold in its table of peers, the node queues for that peer a Join for every
\* group it has joined.
C20_JoinsReplayedToNewPeer ==
  [][last'.op = "connection_established" =>
       /\ last'.peer \notin peers[last'.node] => Replayed(last'.node, last'.peer)
       /\ last'.node \notin peers[last'.peer] => Replayed(last'.peer, last'.node)]_vars

\* a node that has joined two groups has just got its first connection to a
\* peer, and the two Joins for that peer end its queue
C20_Witness ==
  /\ last.op = "connection_established"
  /\ links[{last.node, last.peer}] = 1
  /\ \E x \in {last.node, last.peer} : \E y \in {last.node, last.peer} \ {x} :
       /\ DOMAIN groups[x] = Groups
       /\ Len(events[x]) >= 2
       /\ {events[x][Len(events[x]) - 1], events[x][Len(events[x])]} =
            {NotifyAction(y, GroupAction(group, "Join", TRUE, {})) : group \in Groups}

\* C21: once a node has processed the close of a connection to a peer, that
\* peer is in none of the node's group lists.
C21_ClosedPeerInNoGroup ==
  [][\A pair \in Pairs :
       links'[pair] < links[pair] =>
         \A a \in pair : \A b \in pair \ {a} : \A group \in DOMAIN groups'[a] :
           b \notin groups'[a][group]]_vars

\* n1 had n2 in its list of g1 when their only connection closed: the Dial for
\* n2 is queued, and n2 is gone from the list
C21_Witness ==
  /\ links = [pair \in Pairs |-> 0]
  /\ groups["n3"] = <<>>
  /\ "g1" \in DOMAIN groups["n1"]
  /\ "n2" \notin groups["n1"]["g1"]
  /\ \E i \in DOMAIN events["n1"] : events["n1"][i] = Dial("n2")

\* C22: the store never holds two records with the same channel id.
C22_ChannelIdUnique ==
  \A k1 \in DOMAIN CHANNELS, k2 \in DOMAIN CHANNELS :
    CHANNELS[k1].id = CHANNELS[k2].id => k1 = k2

C24_CheckpointEveryFive ==
  \A k \in DOMAIN CHANNELS : served[k] - CHANNELS[k].onchain_count < 5

\* C25: when the indexer answers an open with the dual-signed OpenState, the
\* store holds for its deployment the channel of that state with status Open
\* and current_count 0.
C25_OpenInstallsChannel ==
  [][\A t \in TaskIds :
       (tasks[t].pc = "await_indexer" /\ tasks[t].kind = "open"
          /\ tasks'[t].result = "Ok") =>
         /\ tasks[t].dep \in DOMAIN CHANNELS'
         /\ CHANNELS'[tasks[t].dep].id = OpenState_from_json(tasks[t].state).channel_id
         /\ CHANNELS'[tasks[t].dep].status = "Open"
         /\ CHANNELS'[tasks[t].dep].current_count = 0]_vars

\* a second open for a deployment has replaced a record that a renew had
\* advanced: the new record starts at 0 again
C25_Witness ==
  /\ Cardinality({t \in TaskIds : tasks[t].kind = "open" /\ tasks[t].installed}) = 2
  /\ \E t \in TaskIds : tasks[t].kind = "query" /\ tasks[t].result = "Ok"
  /\ returned = {}
  /\ renewing = {}
  /\ Cardinality(DOMAIN CHANNELS) = 1
  /\ \A k \in DOMAIN CHANNELS :
       CHANNELS[k].status = "Open" /\ CHANNELS[k].current_count = 0

\* the status changes the lifecycle of a channel allows; a Finalized channel
\* keeps its status until it is removed
StatusTransitions ==
  {<<"Open", "Open">>, <<"Open", "Finalized">>, <<"Open", "Challenge">>,
   <<"Challenge", "Open">>, <<"Challenge", "Finalized">>,
   <<"Finalized", "Finalized">>}

\* C26: in every step, a channel that stays in the store changes its status
\* only along an allowed transition, so a Finalized channel is never Open or
\* Challenge again.  (The consumer proxy assigns ChannelStatus::Open in add and
\* nowhere else, so the transition its steps take is Open->Open.)
C26_StatusTransitions ==
  [][\A k \in DOMAIN CHANNELS \cap DOMAIN CHANNELS' :
       CHANNELS[k].id = CHANNELS'[k].id =>
         <<CHANNELS[k].status, CHANNELS'[k].status>> \in StatusTransitions]_vars

\* a query has been accepted and renewed an Open channel, which is still Open
C26_Witness ==
  /\ returned = {}
  /\ renewing = {}
  /\ \E k \in DOMAIN CHANNELS :
       /\ served[k] = 1
       /\ CHANNELS[k].current_count = 1
       /\ CHANNELS[k].status = "Open"
       /\ CHANNELS[k].last_consumer_sign # default_sign

\* C27: in every state in which an invocation awaits the answer of the
\* indexer, no invocation holds the write guard of the store: every writer has
\* released it before any await, so the store stays accessible to the others.
C27_NoGuardAcrossIo ==
  (\E t \in TaskIds : tasks[t].pc = "await_indexer") => guard = NoWriter

\* one invocation has installed a channel and a renew stands between its two
\* acquisitions of the guard while another invocation awaits the indexer
C27_Witness ==
  /\ \E t \in TaskIds : tasks[t].kind = "open" /\ tasks[t].installed
  /\ \E t \in TaskIds : tasks[t].pc = "await_indexer"
  /\ renewing # {}
  /\ guard = NoWriter

\* recover() of the state object held: <<indexer, consumer>>
Recovered ==
  IF codec.kind = "open" THEN OpenState_recover(codec.state)
  ELSE QueryState_recover(codec.state)

\* the signature slot of a role
Slot(s, is_consumer) == IF is_consumer THEN s.consumer_sign ELSE s.indexer_sign

\* C28 as stated: after sign(S, K, role), recover yields K's address in the
\* position of role, whatever the other slot holds.
C28_SignRecover ==
  codec.op = "sign" =>
    Recovered[IF codec.is_consumer THEN 2 ELSE 1] = AddressOf(codec.key)

\* C28: after sign(S, K, role), recover yields K's address in the position of
\* role when the other slot holds a signature; when the other slot is unsigned,
\* recover fails with InvalidSignature.
C28_SignRecoverBothSigned ==
  codec.op = "sign" =>
    IF Slot(codec.state, ~codec.is_consumer).key # "none"
      THEN Recovered[IF codec.is_consumer THEN 2 ELSE 1] = AddressOf(codec.key)
      ELSE Recovered = <<RecoverError, RecoverError>>

\* the indexer's key has countersigned a query state the consumer signed, and
\* recover yields both addresses
C28_Witness ==
  /\ codec.op = "sign"
  /\ codec.kind = "query"
  /\ ~codec.is_consumer
  /\ codec.key = ControllerKey
  /\ codec.before.indexer_sign = default_sign
  /\ Recovered = <<AddressOf(ControllerKey), codec.state.consumer>>

\* a state with the recovery byte of each signature in its wire form
Canonical(s) ==
  [s EXCEPT !.indexer_sign = convert_sign_to_bytes(s.indexer_sign),
            !.consumer_sign = convert_sign_to_bytes(s.consumer_sign)]

\* C29: from_json(to_json(S)) is S with each signature in its wire form (the
\* unsigned slot included), so the two are equal after canonicalization; every
\* other field comes back as it was.
C29_JsonRoundTrip ==
  codec.op = "json" =>
    /\ codec.state = Canonical(codec.before)
    /\ Canonical(codec.state) = Canonical(codec.before)

\* a state whose indexer slot is unsigned and whose numbers take several
\* digits has gone through to_json and from_json
C29_Witness ==
  /\ codec.op = "json"
  /\ codec.kind = "open"
  /\ codec.before.indexer_sign = default_sign
  /\ codec.before.consumer_sign.v = 28
  /\ codec.state.channel_id = 4096
  /\ codec.state.expiration = 86400

\* C30: sign writes the slot of its role and nothing else: the other slot and
\* every other field are those of the state before.
C30_SignFrame ==
  codec.op = "sign" =>
    /\ codec.state =
         IF codec.is_consumer
           THEN [codec.before EXCEPT !.consumer_sign = codec.state.consumer_sign]
           ELSE [codec.before EXCEPT !.indexer_sign = codec.state.indexer_sign]
    /\ Slot(codec.state, ~codec.is_consumer) = Slot(codec.before, ~codec.is_consumer)

\* the indexer's key has countersigned a state that came in by JSON with the
\* consumer's signature, which is still there
C30_Witness ==
  /\ codec.op = "sign"
  /\ ~codec.is_consumer
  /\ codec.key = ControllerKey
  /\ codec.n = 2
  /\ codec.before.consumer_sign.key \in UserKeys
  /\ codec.before.indexer_sign.key = "none"
  /\ codec.state.indexer_sign.key = ControllerKey
  /\ codec.state.consumer_sign = codec.before.consumer_sign

\* C31: the update of renew(cid, state) changes no record other than one whose
\* channel id is cid, whatever happened to the store since renew looked up
\* the key.
C31_RenewTouchesOnlyCid ==
  [][\A r \in renewing :
       r \notin renewing' =>
         \A k \in DOMAIN CHANNELS :
           CHANNELS'[k] # CHANNELS[k] => CHANNELS[k].id = r.state.channel_id]_vars

\* C32: a query is accepted on a channel whose last renewed state changed the
\* price (the price signed in that state differs from the last_price the renew
\* stored) only after a checkpoint has brought onchain_count up to the renewed
\* count.
C32_CheckpointOnPriceChange ==
  \A t \in InFlightQueries :
    LET channel == tasks[t].chan
    IN (channel.last_consumer_sign # default_sign
          /\ channel.last_consumer_sign.msg[4] # channel.last_price)
         => channel.onchain_count = channel.current_count

\* C33: every channelUpdate the indexer has sent to the coordinator is for a
\* query whose signature was recovered and whose back-end call succeeded.
C33_NotifyOnlyServed == idx_updates \subseteq idx_queries

\* C34: a peer with at least one established connection to a node is in the
\* peer table of that node: closing one of several connections drops nothing.
C34_PeerKeptWhileConnected ==
  \A pair \in Pairs :
    links[pair] > 0 => \A a \in pair : \A b \in pair \ {a} : b \in peers[a]

\* C37: a peer with an established connection has no request queued unsent.
C37_QueuedOnlyWhileDisconnected ==
  \A peer \in Peers :
    connected[peer] # <<>> => pending_outbound_requests[peer] = <<>>

\* requests were queued for a peer that was not connected (the Dial is still
\* among the events) and the connection then established has them all
C37_Witness ==
  \E peer \in Peers :
    /\ connected[peer] # <<>>
    /\ pending_outbound_requests[peer] = <<>>
    /\ Cardinality(connected[peer][1].pending_inbound_responses) = 2
    /\ \E i \in DOMAIN pending_events :
         pending_events[i].type = "Dial" /\ pending_events[i].peer = peer

\* C38: every member of every group of a node is in the peer table of the node.
C38_MembersAreConnected ==
  \A n \in Nodes : \A group \in DOMAIN groups[n] : groups[n][group] \subseteq peers[n]

\* a node has a connected member in one of its groups after a connection of
\* its own has closed and a member has been removed by the control plane
C38_Witness ==
  /\ \E group \in DOMAIN groups["n1"] : groups["n1"][group] = {"n2"}
  /\ peers["n1"] = {"n2"}
  /\ links[{"n1", "n3"}] = 0
  /\ \E i \in DOMAIN events["n1"] : events["n1"][i] = Dial("n3")

\* the swarm has an event for the server loop: the behaviour holds an event
\* it generates for the application
P2pReady ==
  \E i \in DOMAIN pending_events :
    pending_events[i].type \in {"Response", "OutboundFailure", "InboundFailure"}

\* C39: the server loop handles a request of the control plane only when the
\* swarm has no event ready for it: with both ready, the P2P event goes first.
C39_P2pEventFirst ==
  [][next_request_id' # next_request_id => ~P2pReady]_vars

\* C35: each inbound request is answered at most once. A call of response()
\* for an id a response was already handed over for, or for an id no inbound
\* request has, hands nothing to any substream, and no substream is ever
\* handed more than one response.
C35_AnsweredAtMostOnce ==
  [][/\ \A ix \in DOMAIN inbound' : inbound'[ix].sent <= 1
     /\ (/\ responding'.uid # 0
         /\ \/ responding'.uid \in handed
            \/ \A ix \in DOMAIN inbound : inbound[ix].request_id # responding'.uid)
        => /\ DOMAIN inbound' = DOMAIN inbound
           /\ \A ix \in DOMAIN inbound : inbound'[ix].sent = inbound[ix].sent]_vars

\* a second response for a request whose first response the substream is
\* still writing, and a response for an id never given out
C35_Witness ==
  /\ responding.uid # 0 /\ ~responding.found /\ responding.uid \in handed
  /\ \E ix \in DOMAIN inbound :
       /\ inbound[ix].request_id = responding.uid
       /\ inbound[ix].state = "answered" /\ inbound[ix].sent = 1

\* C36: inbound ids come from one counter shared by the connections, so no
\* two inbound requests awaiting a response have the same request id
C36_InboundIdsDistinct ==
  \A ix \in DOMAIN inbound : \A jx \in DOMAIN inbound :
    (ix # jx /\ inbound[ix].state = "awaiting" /\ inbound[jx].state = "awaiting")
      => inbound[ix].request_id # inbound[jx].request_id

\* two requests from different peers, on different connections, both awaiting
C36_Witness ==
  \E ix \in DOMAIN inbound : \E jx \in DOMAIN inbound :
    /\ inbound[ix].peer # inbound[jx].peer
    /\ inbound[ix].connection # inbound[jx].connection
    /\ inbound[ix].state = "awaiting" /\ inbound[jx].state = "awaiting"
    /\ {inbound[ix].request_id, inbound[jx].request_id} \subseteq DOMAIN waiting_requests

\* C40: every entry of waiting_requests belongs to an inbound request still
\* pending on an established connection
C40_WaitingIsPending ==
  \A uid \in DOMAIN waiting_requests :
    \E peer \in Peers : \E p \in 1..Len(connected[peer]) :
      uid \in connected[peer][p].pending_outbound_responses
====
